---- MODULE Spec2Model ----
(***************************************************************************)
(* Monte Carlo blackjack engine of the Cards repository:                   *)
(*   numba_utils.py  draw_card, get_hand_total, side-bet evaluators        *)
(*   simulator.py    _resolve_outcome, _play_single_hand, simulate_chunk,  *)
(*                   FastSimulator.run                                     *)
(* Bet outcomes are floats in the source that are all multiples of 0.5;    *)
(* the model stores them in half units (1.5 is 3, -2.0 is -4).             *)
(***************************************************************************)
EXTENDS Integers, Sequences, FiniteSets

VARIABLES
    shoe_counts,   \* FastSimulator.shoe_counts, the encoded 52-slot vector
    args,          \* the (total_rounds, num_threads) the caller passes to run
    run,           \* the frame of FastSimulator.run
    wk,            \* wk[w]: the frame of worker w's simulate_chunk call
    call           \* frame of a direct call of draw_card / get_hand_total

vars == <<shoe_counts, args, run, wk, call>>

\* ------------------------------------------------------------------------
\* Program constants
\* ------------------------------------------------------------------------
NumSlots == 52
NumRanks == 13
EMPTY == -1
Slots == 0 .. (NumSlots - 1)
Ranks == 0 .. (NumRanks - 1)

\* ------------------------------------------------------------------------
\* Bounds of the model
\* ------------------------------------------------------------------------
MaxCount == 2        \* largest per-slot count of an initial vector
MaxHandLen == 4      \* longest hand handed to get_hand_total directly
MaxExtraDraws == 2   \* draw_card calls made after the vector ran out
MaxRounds == 3       \* largest total_rounds passed to run
MaxThreads == 2      \* largest num_threads passed to run
MaxCardsDrawn == 7   \* total_rounds * cards of the vector: the draws of a run
MaxRoundCards == 8   \* cards of the vector of a one-round run
MaxKeys == 2         \* items of a dictionary passed to FastSimulator
MaxDecks == 2        \* largest decks passed to Shoe
MaxCalls == 2        \* method calls made on one Shoe
MaxEntered == 3      \* cards entered in the window since the last reset
MaxSims == 2         \* simulations started from the window
GuiDecks == 8        \* shoe.Shoe(decks=8) of MainWindow
\* the cards an initial vector may hold: ace of spades, 6 of spades and
\* king of clubs (the first and the last slot among them)
ShoeSlots == {0, 5, 51}
\* the slots a vector handed to draw_card directly may fill: the first two,
\* one in the middle and the last
DrawSlots == {0, 1, 26, 51}

\* ------------------------------------------------------------------------
\* numba_utils.py
\* ------------------------------------------------------------------------
get_card_value_numba(rank) ==
    IF rank = 0 THEN 11
    ELSE IF rank >= 9 THEN 10
    ELSE rank + 1

RECURSIVE SumValues(_, _)
\* the loop of get_hand_total over hand_ranks[k..]: total += value
SumValues(hand, k) ==
    IF k > Len(hand) THEN 0
    ELSE get_card_value_numba(hand[k]) + SumValues(hand, k + 1)

RECURSIVE CountAces(_, _)
\* the loop of get_hand_total over hand_ranks[k..]: aces += 1 on rank 0
CountAces(hand, k) ==
    IF k > Len(hand) THEN 0
    ELSE (IF hand[k] = 0 THEN 1 ELSE 0) + CountAces(hand, k + 1)

\* mutant: an if in place of the while, one reduction at most
ReduceAcesOnce(total, effective_aces) ==
    IF total > 21 /\ effective_aces > 0 THEN total - 10 ELSE total

\* mutant: every Ace is taken down to 1 as soon as the total exceeds 21
ReduceAllAces(total, effective_aces) ==
    IF total > 21 /\ effective_aces > 0 THEN total - 10 * effective_aces ELSE total

RECURSIVE ReduceAces(_, _)
\* while total > 21 and effective_aces > 0: total -= 10; effective_aces -= 1
ReduceAces(total, effective_aces) ==
    IF total > 21 /\ effective_aces > 0
    THEN ReduceAces(total - 10, effective_aces - 1)
    ELSE total

SoftFlag(aces, total) == aces > 0 /\ total <= 21

get_hand_total(hand) ==
    LET naive == SumValues(hand, 1)
        aces  == CountAces(hand, 1)
        total == IF aces > 0 /\ naive > 21 THEN ReduceAces(naive, aces) ELSE naive
    IN  [total |-> total, is_soft |-> SoftFlag(aces, total)]

RECURSIVE SumFrom(_, _)
\* np.sum(temp_shoe): sum of slots j..51
SumFrom(counts, j) ==
    IF j >= NumSlots THEN 0 ELSE counts[j] + SumFrom(counts, j + 1)

Total(counts) == SumFrom(counts, 0)

RECURSIVE Fallback(_, _)
\* for j in range(51, -1, -1): first slot with count > 0, else -1
Fallback(counts, j) ==
    IF j < 0 THEN EMPTY
    ELSE IF counts[j] > 0 THEN j
    ELSE Fallback(counts, j - 1)

RECURSIVE WalkLE(_, _, _, _)
\* mutant: rand_val <= cumulative_sum in place of rand_val < cumulative_sum
WalkLE(counts, rand_val, j, cumulative_sum) ==
    IF j >= NumSlots THEN Fallback(counts, NumSlots - 1)
    ELSE LET c == cumulative_sum + counts[j]
         IN  IF rand_val <= c THEN j ELSE WalkLE(counts, rand_val, j + 1, c)

RECURSIVE Walk(_, _, _, _)
\* for j in range(52): cumulative_sum += temp_shoe[j]; if rand_val < cumulative_sum
Walk(counts, rand_val, j, cumulative_sum) ==
    IF j >= NumSlots THEN Fallback(counts, NumSlots - 1)
    ELSE LET c == cumulative_sum + counts[j]
         IN  IF rand_val < c THEN j ELSE Walk(counts, rand_val, j + 1, c)

\* the slot draw_card picks; rand_val stands for floor(random() * total_cards),
\* which decides every comparison against the integer cumulative sums
DrawIndex(counts, rand_val) ==
    IF Total(counts) = 0 THEN EMPTY ELSE Walk(counts, rand_val, 0, 0)

\* mutant: the slot below the one returned is decremented
DecrementBelow(counts, j) ==
    IF j > 0 THEN [counts EXCEPT ![j - 1] = @ - 1] ELSE [counts EXCEPT ![j] = @ - 1]

Decrement(counts, j) == [counts EXCEPT ![j] = @ - 1]

\* mutant: the decrement is made on a copy, the caller's vector stays as it was
draw_card_on_copy(counts, rand_val) ==
    [idx |-> DrawIndex(counts, rand_val), shoe |-> counts]

\* draw_card: the returned index and the vector as mutated in place
draw_card(counts, rand_val) ==
    LET j == DrawIndex(counts, rand_val)
    IN  [idx |-> j, shoe |-> IF j = EMPTY THEN counts ELSE Decrement(counts, j)]

\* np.random.random() * total_cards lies in [0, total_cards)
RandVals(counts) ==
    IF Total(counts) = 0 THEN {0} ELSE 0 .. (Total(counts) - 1)

\* payouts are written as in the source and stored in half units
Pay(x) == 2 * x

\* mutant: suits 0 and 1 taken for the red ones
perfect_pairs_red_low(p_ranks, p_suits) ==
    IF p_ranks[1] # p_ranks[2] THEN Pay(-1)
    ELSE IF p_suits[1] = p_suits[2] THEN Pay(25)
    ELSE LET is_c1_red == (p_suits[1] = 0 \/ p_suits[1] = 1)
             is_c2_red == (p_suits[2] = 0 \/ p_suits[2] = 1)
         IN  IF is_c1_red = is_c2_red THEN Pay(12) ELSE Pay(6)

\* mutant: the payouts of the coloured and the mixed pair change places
perfect_pairs_mixed_high(p_ranks, p_suits) ==
    IF p_ranks[1] # p_ranks[2] THEN Pay(-1)
    ELSE IF p_suits[1] = p_suits[2] THEN Pay(25)
    ELSE LET is_c1_red == (p_suits[1] = 1 \/ p_suits[1] = 2)
             is_c2_red == (p_suits[2] = 1 \/ p_suits[2] = 2)
         IN  IF is_c1_red = is_c2_red THEN Pay(6) ELSE Pay(12)

evaluate_perfect_pairs_numba(p_ranks, p_suits) ==
    IF p_ranks[1] # p_ranks[2] THEN Pay(-1)
    ELSE IF p_suits[1] = p_suits[2] THEN Pay(25)
    ELSE LET is_c1_red == (p_suits[1] = 1 \/ p_suits[1] = 2)
             is_c2_red == (p_suits[2] = 1 \/ p_suits[2] = 2)
         IN  IF is_c1_red = is_c2_red THEN Pay(12) ELSE Pay(6)

SetMax(S) == CHOOSE x \in S : \A y \in S : y <= x
SetMin(S) == CHOOSE x \in S : \A y \in S : x <= y

\* mutant: Ace, Queen, King is not a straight
plus3_without_wheel(p_ranks, d_rank, p_suits, d_suit) ==
    LET unique_ranks  == {p_ranks[1], p_ranks[2], d_rank}
        is_flush      == (p_suits[1] = p_suits[2] /\ p_suits[2] = d_suit)
        is_three_kind == (Cardinality(unique_ranks) = 1)
        is_straight   ==
            (Cardinality(unique_ranks) = 3
                /\ SetMax(unique_ranks) - SetMin(unique_ranks) = 2)
    IN  IF is_three_kind /\ is_flush THEN Pay(100)
        ELSE IF is_straight /\ is_flush THEN Pay(40)
        ELSE IF is_three_kind THEN Pay(30)
        ELSE IF is_straight THEN Pay(10)
        ELSE IF is_flush THEN Pay(5)
        ELSE Pay(-1)

evaluate_21plus3_numba(p_ranks, d_rank, p_suits, d_suit) ==
    LET unique_ranks  == {p_ranks[1], p_ranks[2], d_rank}
        is_flush      == (p_suits[1] = p_suits[2] /\ p_suits[2] = d_suit)
        is_three_kind == (Cardinality(unique_ranks) = 1)
        is_straight   ==
            \/ (Cardinality(unique_ranks) = 3
                /\ SetMax(unique_ranks) - SetMin(unique_ranks) = 2)
            \/ {0, 11, 12} \subseteq unique_ranks
    IN  IF is_three_kind /\ is_flush THEN Pay(100)
        ELSE IF is_straight /\ is_flush THEN Pay(40)
        ELSE IF is_three_kind THEN Pay(30)
        ELSE IF is_straight THEN Pay(10)
        ELSE IF is_flush THEN Pay(5)
        ELSE Pay(-1)

\* mutant: three 7s are paid by their total, 21
hot3_without_sevens(p_ranks, d_rank) ==
    LET three_card_hand == <<p_ranks[1], p_ranks[2], d_rank>>
        total == get_hand_total(three_card_hand).total
    IN  IF total = 21 THEN Pay(10)
        ELSE IF total = 20 THEN Pay(2)
        ELSE IF total = 19 THEN Pay(1)
        ELSE Pay(-1)

evaluate_hot3_numba(p_ranks, d_rank) ==
    LET three_card_hand == <<p_ranks[1], p_ranks[2], d_rank>>
        total == get_hand_total(three_card_hand).total
    IN  IF p_ranks[1] = 6 /\ p_ranks[2] = 6 /\ d_rank = 6 THEN Pay(100)
        ELSE IF total = 21 THEN Pay(10)
        ELSE IF total = 20 THEN Pay(2)
        ELSE IF total = 19 THEN Pay(1)
        ELSE Pay(-1)

\* ------------------------------------------------------------------------
\* simulator.py
\* ------------------------------------------------------------------------
\* mutant: the dealer's bust is tested before the player's
resolve_outcome_dealer_first(player_total, dealer_total, bet_multiplier) ==
    IF dealer_total > 21 THEN bet_multiplier
    ELSE IF player_total > 21 THEN 0 - bet_multiplier
    ELSE IF player_total > dealer_total THEN bet_multiplier
    ELSE IF player_total < dealer_total THEN 0 - bet_multiplier
    ELSE 0

\* bet_multiplier is in half units: 1.0 is 2, 2.0 is 4
resolve_outcome(player_total, dealer_total, bet_multiplier) ==
    IF player_total > 21 THEN 0 - bet_multiplier
    ELSE IF dealer_total > 21 \/ player_total > dealer_total THEN bet_multiplier
    ELSE IF player_total < dealer_total THEN 0 - bet_multiplier
    ELSE 0

\* mutant: "dealer 2 to 5" read as the card's face, rank indices 1..4
DoDoubleByFace(hand, dealer_up_rank) ==
    LET h == get_hand_total(hand)
    IN  IF h.is_soft
        THEN h.total \in {17, 18} /\ dealer_up_rank \in {1, 2, 3, 4}
        ELSE \/ h.total = 11
             \/ (h.total = 10 /\ dealer_up_rank <= 8)
             \/ (h.total = 9 /\ dealer_up_rank \in {1, 2, 3, 4})

\* _play_single_hand, the len(hand) == 2 block: the value of do_double
DoDouble(hand, dealer_up_rank) ==
    LET h == get_hand_total(hand)
    IN  IF h.is_soft
        THEN h.total \in {17, 18} /\ dealer_up_rank \in {2, 3, 4, 5}
        ELSE \/ h.total = 11
             \/ (h.total = 10 /\ dealer_up_rank <= 8)
             \/ (h.total = 9 /\ dealer_up_rank \in {2, 3, 4, 5})

\* _play_single_hand, the while loop: the hand is returned without a draw
DoStand(hand, dealer_up_rank) ==
    LET h == get_hand_total(hand)
    IN  \/ h.total >= 21
        \/ IF h.is_soft
           THEN \/ h.total >= 19
                \/ (h.total = 18 /\ dealer_up_rank <= 7)
           ELSE \/ h.total >= 17
                \/ (h.total >= 13 /\ dealer_up_rank <= 5)
                \/ (h.total = 12 /\ dealer_up_rank \in {3, 4, 5})

\* mutant: the payout of the table of the specification: 3, 4 and 5 cards
\* pay, any other card count loses
BustPayoutByTable(dealer_hand) ==
    IF get_hand_total(dealer_hand).total > 21
    THEN LET num_cards == Len(dealer_hand)
         IN  IF num_cards = 3 THEN Pay(1)
             ELSE IF num_cards = 4 THEN Pay(2)
             ELSE IF num_cards = 5 THEN Pay(15)
             ELSE Pay(-1)
    ELSE Pay(-1)

\* mutant: every pair is split
ShouldSplitAnyPair(p_ranks, d_rank) == p_ranks[1] = p_ranks[2]

\* simulate_chunk, the splitting logic: the value of should_split
ShouldSplit(p_ranks, d_rank) ==
    LET pair_rank     == p_ranks[1]
        dealer_up_val == get_hand_total(<<d_rank>>).total
    IN  /\ p_ranks[1] = p_ranks[2]
        /\ \/ pair_rank \in {0, 7}
           \/ (pair_rank = 8 /\ dealer_up_val \notin {7, 10, 11})
           \/ (pair_rank \in {1, 2, 6} /\ dealer_up_val <= 7)
           \/ (pair_rank = 5 /\ dealer_up_val <= 6)

\* the bust side bet, from the dealer's final hand
BustPayout(dealer_hand) ==
    IF get_hand_total(dealer_hand).total > 21
    THEN LET num_cards == Len(dealer_hand)
         IN  IF num_cards = 3 THEN Pay(1)
             ELSE IF num_cards = 4 THEN Pay(2)
             ELSE IF num_cards >= 5 THEN Pay(15)
             ELSE Pay(-1)
    ELSE Pay(-1)

ZeroRow == <<0, 0, 0, 0, 0>>
NoVector == [j \in Slots |-> 0]

\* the frame of simulate_chunk(shoe_counts, rounds) on entry
ChunkEntry(counts, rounds) ==
    [pc          |-> "start",
     shoe_counts |-> counts,
     rounds      |-> rounds,
     results     |-> [k \in 1 .. rounds |-> ZeroRow],
     i           |-> 0,
     temp_shoe   |-> NoVector,
     p1_idx      |-> EMPTY,
     p2_idx      |-> EMPTY,
     d1_idx      |-> EMPTY,
     dealer_hand |-> <<>>,
     hands       |-> <<>>,     \* p_ranks, or hand1 and hand2 after a split
     cur         |-> 0,        \* the hand _play_single_hand is playing
     entry       |-> FALSE,    \* _play_single_hand is at its first statement
     finals      |-> <<>>,     \* (final total, multiplier) of the hands played
     act         |-> "none",   \* the statement executed last
     prev_sum    |-> 0]        \* sum of temp_shoe before that statement

SetCell(s, col, v) == [s EXCEPT !.results[s.i + 1][col] = v]

\* mutant: the copy is made once, before the loop, and later rounds go on
\* with the vector the round before left
RoundStartKeep(s) ==
    [s EXCEPT !.pc = "deal_p1",
              !.temp_shoe = IF s.i = 0 THEN s.shoe_counts ELSE s.temp_shoe,
              !.p1_idx = EMPTY, !.p2_idx = EMPTY, !.d1_idx = EMPTY,
              !.dealer_hand = <<>>, !.hands = <<>>, !.cur = 0,
              !.entry = FALSE, !.finals = <<>>, !.act = "copy"]

\* for i in prange(rounds): temp_shoe = shoe_counts.copy()
RoundStart(s) ==
    [s EXCEPT !.pc = "deal_p1", !.temp_shoe = s.shoe_counts,
              !.p1_idx = EMPTY, !.p2_idx = EMPTY, !.d1_idx = EMPTY,
              !.dealer_hand = <<>>, !.hands = <<>>, !.cur = 0,
              !.entry = FALSE, !.finals = <<>>, !.act = "copy"]

\* mutant: a round abandoned after the deal gives its row back as zeros
ContinueClearsRow(s, why) ==
    [s EXCEPT !.pc = "start", !.i = @ + 1, !.act = why,
              !.results[s.i + 1] = IF why \in {"abort_hole", "abort_split"}
                                   THEN ZeroRow ELSE @]

\* continue, or the end of the loop body
Continue(s, why) == [s EXCEPT !.pc = "start", !.i = @ + 1, !.act = why]

PRanks(s) == <<s.p1_idx % NumRanks, s.p2_idx % NumRanks>>
PSuits(s) == <<s.p1_idx \div NumRanks, s.p2_idx \div NumRanks>>
DRank(s) == s.d1_idx % NumRanks
DSuit(s) == s.d1_idx \div NumRanks

\* p1_idx = draw_card(temp_shoe)
DealPlayer1(s, r) ==
    LET d == draw_card(s.temp_shoe, r)
    IN  [s EXCEPT !.pc = "deal_p2", !.temp_shoe = d.shoe, !.p1_idx = d.idx,
                  !.act = "draw"]

\* p2_idx = draw_card(temp_shoe)
DealPlayer2(s, r) ==
    LET d == draw_card(s.temp_shoe, r)
    IN  [s EXCEPT !.pc = "deal_d1", !.temp_shoe = d.shoe, !.p2_idx = d.idx,
                  !.act = "draw"]

\* mutant: only the first of the three indices is tested for EMPTY
DealUpCardTestsFirst(s, r) ==
    LET d  == draw_card(s.temp_shoe, r)
        s1 == [s EXCEPT !.temp_shoe = d.shoe, !.d1_idx = d.idx]
    IN  IF s1.p1_idx = EMPTY
        THEN Continue(s1, "abort_deal")
        ELSE LET s2 == SetCell(s1, 3, evaluate_21plus3_numba(PRanks(s1), DRank(s1),
                                                             PSuits(s1), DSuit(s1)))
                 s3 == SetCell(s2, 4, evaluate_perfect_pairs_numba(PRanks(s1), PSuits(s1)))
                 s4 == SetCell(s3, 5, evaluate_hot3_numba(PRanks(s1), DRank(s1)))
             IN  [s4 EXCEPT !.pc = "hole", !.hands = <<PRanks(s1)>>,
                            !.dealer_hand = <<DRank(s1)>>, !.act = "draw"]

\* d1_idx = draw_card(temp_shoe); the EMPTY test; the three side bets
DealUpCard(s, r) ==
    LET d  == draw_card(s.temp_shoe, r)
        s1 == [s EXCEPT !.temp_shoe = d.shoe, !.d1_idx = d.idx]
    IN  IF EMPTY \in {s1.p1_idx, s1.p2_idx, s1.d1_idx}
        THEN Continue(s1, "abort_deal")
        ELSE LET s2 == SetCell(s1, 3, evaluate_21plus3_numba(PRanks(s1), DRank(s1),
                                                             PSuits(s1), DSuit(s1)))
                 s3 == SetCell(s2, 4, evaluate_perfect_pairs_numba(PRanks(s1), PSuits(s1)))
                 s4 == SetCell(s3, 5, evaluate_hot3_numba(PRanks(s1), DRank(s1)))
             IN  [s4 EXCEPT !.pc = "hole", !.hands = <<PRanks(s1)>>,
                            !.dealer_hand = <<DRank(s1)>>, !.act = "draw"]

\* mutant: the dealer's 21 is tested before the player's
DealHoleCardDealerFirst(s, r) ==
    LET d            == draw_card(s.temp_shoe, r)
        s1           == [s EXCEPT !.temp_shoe = d.shoe]
        p_ranks      == PRanks(s)
        player_total == get_hand_total(p_ranks).total
        dealer_hand  == <<DRank(s), d.idx % NumRanks>>
        dealer_total == get_hand_total(dealer_hand).total
        s2           == [s1 EXCEPT !.dealer_hand = dealer_hand]
    IN  IF d.idx = EMPTY THEN Continue(s1, "abort_hole")
        ELSE IF dealer_total = 21
        THEN Continue(SetCell(s2, 1, Pay(-1)), "natural")
        ELSE IF player_total = 21
        THEN Continue(SetCell(s2, 1, 3), "natural")
        ELSE IF ShouldSplit(p_ranks, DRank(s))
        THEN [s2 EXCEPT !.pc = "split1", !.act = "draw",
                        !.hands = <<<<p_ranks[1]>>, <<p_ranks[1]>>>>]
        ELSE [s2 EXCEPT !.pc = "play", !.hands = <<p_ranks>>, !.cur = 1,
                        !.entry = TRUE, !.act = "draw"]

\* d_hole_idx = draw_card(temp_shoe); the naturals; the split decision
DealHoleCard(s, r) ==
    LET d            == draw_card(s.temp_shoe, r)
        s1           == [s EXCEPT !.temp_shoe = d.shoe]
        p_ranks      == PRanks(s)
        player_total == get_hand_total(p_ranks).total
        dealer_hand  == <<DRank(s), d.idx % NumRanks>>
        dealer_total == get_hand_total(dealer_hand).total
        s2           == [s1 EXCEPT !.dealer_hand = dealer_hand]
    IN  IF d.idx = EMPTY THEN Continue(s1, "abort_hole")
        ELSE IF player_total = 21
        THEN Continue(SetCell(s2, 1, IF dealer_total # 21 THEN 3 ELSE 0), "natural")
        ELSE IF dealer_total = 21
        THEN Continue(SetCell(s2, 1, Pay(-1)), "natural")
        ELSE IF ShouldSplit(p_ranks, DRank(s))
        THEN [s2 EXCEPT !.pc = "split1", !.act = "draw",
                        !.hands = <<<<p_ranks[1]>>, <<p_ranks[1]>>>>]
        ELSE [s2 EXCEPT !.pc = "play", !.hands = <<p_ranks>>, !.cur = 1,
                        !.entry = TRUE, !.act = "draw"]

\* hand1_card2_idx = draw_card(temp_shoe)
SplitFirst(s, r) ==
    LET d == draw_card(s.temp_shoe, r)
    IN  [s EXCEPT !.pc = "split2", !.temp_shoe = d.shoe,
                  !.hands[1] = IF d.idx = EMPTY THEN @ ELSE Append(@, d.idx % NumRanks),
                  !.act = "draw"]

\* hand2_card2_idx = draw_card(temp_shoe); the EMPTY test; hand1 and hand2
SplitSecond(s, r) ==
    LET d  == draw_card(s.temp_shoe, r)
        s1 == [s EXCEPT !.temp_shoe = d.shoe,
                        !.hands[2] = IF d.idx = EMPTY THEN @
                                     ELSE Append(@, d.idx % NumRanks)]
    IN  IF Len(s.hands[1]) < 2 \/ d.idx = EMPTY
        THEN Continue(s1, "abort_split")
        ELSE [s1 EXCEPT !.pc = "play", !.cur = 1, !.entry = TRUE, !.act = "draw"]

\* the dealer's final hand is compared with every hand played; the bust bet
Resolve(s, why) ==
    LET dealer_final_val == get_hand_total(s.dealer_hand).total
        outcome1 == resolve_outcome(s.finals[1].total, dealer_final_val, s.finals[1].mult)
        outcome2 == IF Len(s.finals) = 2
                    THEN resolve_outcome(s.finals[2].total, dealer_final_val,
                                         s.finals[2].mult)
                    ELSE 0
        s1 == SetCell(s, 1, outcome1 + outcome2)
        s2 == SetCell(s1, 2, BustPayout(s.dealer_hand))
    IN  Continue(s2, why)

\* mutant: the dealer plays as soon as the first hand of the player returns
ReturnHandDealerFirst(s, total, mult, why) ==
    LET s1 == [s EXCEPT !.finals = Append(@, [total |-> total, mult |-> mult]),
                        !.act = why]
    IN  [s1 EXCEPT !.pc = "dealer", !.entry = FALSE]

\* return of _play_single_hand to simulate_chunk
ReturnHand(s, total, mult, why) ==
    LET s1 == [s EXCEPT !.finals = Append(@, [total |-> total, mult |-> mult]),
                        !.act = why]
    IN  IF s.cur < Len(s.hands)
        THEN [s1 EXCEPT !.cur = @ + 1, !.entry = TRUE]
        ELSE [s1 EXCEPT !.pc = "dealer", !.entry = FALSE]

CurHand(s) == s.hands[s.cur]

\* the guard of the doubling branch
WillDouble(s) ==
    s.entry /\ Len(CurHand(s)) = 2 /\ DoDouble(CurHand(s), DRank(s))

\* mutant: after the card of the double the hand goes on in the while loop
DoubleAndGoOn(s, r) ==
    LET d == draw_card(s.temp_shoe, r)
    IN  IF d.idx = EMPTY
        THEN ReturnHand(s, get_hand_total(CurHand(s)).total, 4, "double")
        ELSE [s EXCEPT !.temp_shoe = d.shoe,
                       !.hands[s.cur] = Append(@, d.idx % NumRanks),
                       !.entry = FALSE, !.act = "double"]

\* if do_double: one draw, return final_total, 2.0
Double(s, r) ==
    LET d    == draw_card(s.temp_shoe, r)
        hand == IF d.idx # EMPTY THEN Append(CurHand(s), d.idx % NumRanks) ELSE CurHand(s)
        s1   == [s EXCEPT !.temp_shoe = d.shoe, !.hands[s.cur] = hand]
    IN  ReturnHand(s1, get_hand_total(hand).total, 4, "double")

\* if player_total >= 21 or stand: return player_total, 1.0
Stand(s) == ReturnHand(s, get_hand_total(CurHand(s)).total, 2, "stand")

\* mutant: on EMPTY the while loop goes round again
HitAgainOnEmpty(s, r) ==
    LET d == draw_card(s.temp_shoe, r)
    IN  IF d.idx = EMPTY
        THEN [s EXCEPT !.entry = FALSE, !.act = "hit_empty"]
        ELSE [s EXCEPT !.temp_shoe = d.shoe,
                       !.hands[s.cur] = Append(@, d.idx % NumRanks),
                       !.entry = FALSE, !.act = "hit"]

\* card_idx = draw_card(temp_shoe); return on EMPTY, else append and loop
Hit(s, r) ==
    LET d == draw_card(s.temp_shoe, r)
    IN  IF d.idx = EMPTY
        THEN ReturnHand(s, get_hand_total(CurHand(s)).total, 2, "hit_empty")
        ELSE [s EXCEPT !.temp_shoe = d.shoe,
                       !.hands[s.cur] = Append(@, d.idx % NumRanks),
                       !.entry = FALSE, !.act = "hit"]

\* mutant: the dealer also draws on a soft 17
DealerHitsSoft17(dealer_hand) ==
    LET h == get_hand_total(dealer_hand)
    IN  h.total < 17 \/ (h.total = 17 /\ h.is_soft)

\* while get_hand_total(dealer_hand)[0] < 17
DealerMustDraw(dealer_hand) == get_hand_total(dealer_hand).total < 17

\* mutant: the dealer's card is drawn from a copy of the vector
DealerDrawFromCopy(s, r) ==
    LET d == draw_card(s.temp_shoe, r)
    IN  IF d.idx = EMPTY
        THEN Resolve(s, "dealer_empty")
        ELSE [s EXCEPT !.dealer_hand = Append(@, d.idx % NumRanks),
                       !.act = "dealer_hit"]

\* one iteration of the dealer loop; break on EMPTY
DealerDraw(s, r) ==
    LET d == draw_card(s.temp_shoe, r)
    IN  IF d.idx = EMPTY
        THEN Resolve(s, "dealer_empty")
        ELSE [s EXCEPT !.temp_shoe = d.shoe,
                       !.dealer_hand = Append(@, d.idx % NumRanks),
                       !.act = "dealer_hit"]

\* ------------------------------------------------------------------------
\* Actions of worker w: the statements of simulate_chunk
\* ------------------------------------------------------------------------
\* mutant: the workers draw from one vector they all hold
StepShared(w, s) ==
    /\ wk' = [v \in DOMAIN wk |->
                 IF v = w THEN [s EXCEPT !.prev_sum = Total(wk[w].temp_shoe)]
                 ELSE [wk[v] EXCEPT !.temp_shoe = s.temp_shoe]]
    /\ UNCHANGED <<shoe_counts, args, run, call>>

Step(w, s) ==
    /\ wk' = [wk EXCEPT ![w] = [s EXCEPT !.prev_sum = Total(wk[w].temp_shoe)]]
    /\ UNCHANGED <<shoe_counts, args, run, call>>

At(w, pc) == w \in DOMAIN wk /\ wk[w].pc = pc

StartRound(w) ==
    /\ At(w, "start") /\ wk[w].i < wk[w].rounds
    /\ Step(w, RoundStart(wk[w]))

ChunkReturn(w) ==
    /\ At(w, "start") /\ wk[w].i >= wk[w].rounds
    /\ Step(w, [wk[w] EXCEPT !.pc = "done", !.act = "return"])

DealP1(w) ==
    /\ At(w, "deal_p1")
    /\ \E r \in RandVals(wk[w].temp_shoe) : Step(w, DealPlayer1(wk[w], r))

DealP2(w) ==
    /\ At(w, "deal_p2")
    /\ \E r \in RandVals(wk[w].temp_shoe) : Step(w, DealPlayer2(wk[w], r))

DealD1(w) ==
    /\ At(w, "deal_d1")
    /\ \E r \in RandVals(wk[w].temp_shoe) : Step(w, DealUpCard(wk[w], r))

DealHole(w) ==
    /\ At(w, "hole")
    /\ \E r \in RandVals(wk[w].temp_shoe) : Step(w, DealHoleCard(wk[w], r))

SplitDraw1(w) ==
    /\ At(w, "split1")
    /\ \E r \in RandVals(wk[w].temp_shoe) : Step(w, SplitFirst(wk[w], r))

SplitDraw2(w) ==
    /\ At(w, "split2")
    /\ \E r \in RandVals(wk[w].temp_shoe) : Step(w, SplitSecond(wk[w], r))

PlayerDouble(w) ==
    /\ At(w, "play") /\ WillDouble(wk[w])
    /\ \E r \in RandVals(wk[w].temp_shoe) : Step(w, Double(wk[w], r))

PlayerStand(w) ==
    /\ At(w, "play") /\ ~WillDouble(wk[w])
    /\ DoStand(CurHand(wk[w]), DRank(wk[w]))
    /\ Step(w, Stand(wk[w]))

PlayerHit(w) ==
    /\ At(w, "play") /\ ~WillDouble(wk[w])
    /\ ~DoStand(CurHand(wk[w]), DRank(wk[w]))
    /\ \E r \in RandVals(wk[w].temp_shoe) : Step(w, Hit(wk[w], r))

DealerHit(w) ==
    /\ At(w, "dealer") /\ DealerMustDraw(wk[w].dealer_hand)
    /\ \E r \in RandVals(wk[w].temp_shoe) : Step(w, DealerDraw(wk[w], r))

DealerStand(w) ==
    /\ At(w, "dealer") /\ ~DealerMustDraw(wk[w].dealer_hand)
    /\ Step(w, Resolve(wk[w], "resolve"))

\* ------------------------------------------------------------------------
\* FastSimulator.run
\* ------------------------------------------------------------------------
Workers == DOMAIN wk

\* mutant: only the rows of the first worker are stacked
VStackFirst(frames, w) ==
    IF w > Len(frames) THEN <<>> ELSE frames[w].results

RECURSIVE VStack(_, _)
\* np.vstack(batch_results): the rows of workers w, w+1, ... in order
VStack(frames, w) ==
    IF w > Len(frames) THEN <<>> ELSE frames[w].results \o VStack(frames, w + 1)

RECURSIVE ColumnSum(_, _, _)
ColumnSum(rows, col, k) ==
    IF k > Len(rows) THEN 0 ELSE rows[k][col] + ColumnSum(rows, col, k + 1)

\* np.mean of a column, as the fraction sum / number of rows (sum in half units)
Mean(rows, col) == [sum |-> ColumnSum(rows, col, 1), n |-> Len(rows)]

EvKeys == <<"main_ev", "bust_ev", "21+3_ev", "perfect_pairs_ev", "hot3_ev">>

NoEvs == [k \in {} |-> 0]

Evs(rows) == [k \in {EvKeys[c] : c \in 1 .. 5} |->
                 Mean(rows, CHOOSE c \in 1 .. 5 : EvKeys[c] = k)]

\* num_threads after "if total_rounds < num_threads: num_threads = total_rounds"
NumThreads(total_rounds, num_threads) ==
    IF total_rounds < num_threads THEN total_rounds ELSE num_threads

RoundsPerThread(total_rounds, num_threads) == total_rounds \div num_threads

\* mutant: the chunks are submitted before total_rounds is tested
RunCallSubmitsFirst ==
    /\ run.pc = "idle"
    /\ LET num_threads == NumThreads(args.total_rounds, args.num_threads)
       IN  IF args.total_rounds = 0
           THEN /\ run' = [run EXCEPT !.pc = "running", !.num_threads = args.num_threads]
                /\ wk' = [w \in 1 .. args.num_threads |-> ChunkEntry(shoe_counts, 0)]
           ELSE IF num_threads = 0
           THEN /\ run' = [run EXCEPT !.pc = "raised", !.num_threads = num_threads]
                /\ UNCHANGED wk
           ELSE LET rounds_per_thread == RoundsPerThread(args.total_rounds, num_threads)
                IN  /\ run' = [run EXCEPT !.pc = "running", !.num_threads = num_threads,
                                          !.rounds_per_thread = rounds_per_thread]
                    /\ wk' = [w \in 1 .. num_threads |->
                                 ChunkEntry(shoe_counts, rounds_per_thread)]
    /\ UNCHANGED <<shoe_counts, args, call>>

\* run up to the submission of the chunks; {} at once for total_rounds == 0,
\* ZeroDivisionError from total_rounds // num_threads for num_threads == 0
RunCall ==
    /\ run.pc = "idle"
    /\ LET num_threads == NumThreads(args.total_rounds, args.num_threads)
       IN  IF args.total_rounds = 0
           THEN /\ run' = [run EXCEPT !.pc = "returned", !.num_threads = num_threads,
                                      !.evs = NoEvs]
                /\ UNCHANGED wk
           ELSE IF num_threads = 0
           THEN /\ run' = [run EXCEPT !.pc = "raised", !.num_threads = num_threads]
                /\ UNCHANGED wk
           ELSE LET rounds_per_thread == RoundsPerThread(args.total_rounds, num_threads)
                IN  /\ run' = [run EXCEPT !.pc = "running", !.num_threads = num_threads,
                                          !.rounds_per_thread = rounds_per_thread]
                    /\ wk' = [w \in 1 .. num_threads |->
                                 ChunkEntry(shoe_counts, rounds_per_thread)]
    /\ UNCHANGED <<shoe_counts, args, call>>

\* every future has its result: vstack and the column means
RunReturn ==
    /\ run.pc = "running"
    /\ \A w \in Workers : wk[w].pc = "done"
    /\ LET all_results == VStack(wk, 1)
       IN  run' = [run EXCEPT !.pc = "returned", !.all_results = all_results,
                              !.evs = Evs(all_results)]
    /\ UNCHANGED <<shoe_counts, args, wk, call>>

RunIdle == [pc |-> "idle", num_threads |-> 0, rounds_per_thread |-> 0,
            all_results |-> <<>>, evs |-> NoEvs]

Next ==
    \/ RunCall
    \/ \E w \in Workers : StartRound(w)
    \/ \E w \in Workers : ChunkReturn(w)
    \/ \E w \in Workers : DealP1(w)
    \/ \E w \in Workers : DealP2(w)
    \/ \E w \in Workers : DealD1(w)
    \/ \E w \in Workers : DealHole(w)
    \/ \E w \in Workers : SplitDraw1(w)
    \/ \E w \in Workers : SplitDraw2(w)
    \/ \E w \in Workers : PlayerDouble(w)
    \/ \E w \in Workers : PlayerStand(w)
    \/ \E w \in Workers : PlayerHit(w)
    \/ \E w \in Workers : DealerHit(w)
    \/ \E w \in Workers : DealerStand(w)
    \/ RunReturn

\* ------------------------------------------------------------------------
\* Specification: a simulator is constructed and run is called once
\* ------------------------------------------------------------------------
\* the vectors _encode_shoe can produce within the bounds
InitShoes ==
    {[j \in Slots |-> IF j \in ShoeSlots THEN f[j] ELSE 0] :
        f \in [ShoeSlots -> 0 .. MaxCount]}

NoCall == [fn |-> "none"]

Init ==
    /\ shoe_counts \in InitShoes
    /\ args \in [total_rounds : 0 .. MaxRounds, num_threads : 0 .. MaxThreads]
    /\ args.total_rounds * Total(shoe_counts) <= MaxCardsDrawn
    /\ run = RunIdle
    /\ wk = <<>>
    /\ call = NoCall

Spec == Init /\ [][Next]_vars

\* ------------------------------------------------------------------------
\* Specification: run(1, 1), one round, on a vector of up to MaxRoundCards
\* cards taken from one of two decks
\* ------------------------------------------------------------------------
\* small cards and kings, for long dealer hands: three each of the 2 of
\* spades and the 3 of spades, four kings of clubs
BustDeck ==
    [j \in Slots |-> IF j \in {1, 2} THEN 3 ELSE IF j = 51 THEN 4 ELSE 0]

\* two-card totals of 9, 10, 11 and soft 17: ace of spades, 3 of spades,
\* two 5 of spades, two 6 of hearts, king of clubs
DoubleDeck ==
    [j \in Slots |-> IF j \in {0, 2, 51} THEN 1
                     ELSE IF j \in {4, 18} THEN 2
                     ELSE 0]

RoundDecks == {BustDeck, DoubleDeck}

\* the vectors of at most MaxRoundCards cards that fit in deck
SubDecks(deck) ==
    LET slots == {j \in Slots : deck[j] > 0}
        most  == SetMax({deck[j] : j \in slots})
    IN  {v \in {[j \in Slots |-> IF j \in slots THEN f[j] ELSE 0] :
                   f \in [slots -> 0 .. most]} :
            /\ \A j \in slots : v[j] <= deck[j]
            /\ Total(v) <= MaxRoundCards}

RoundShoes == UNION {SubDecks(deck) : deck \in RoundDecks}

InitRound ==
    /\ shoe_counts \in RoundShoes
    /\ args = [total_rounds |-> 1, num_threads |-> 1]
    /\ run = RunIdle
    /\ wk = <<>>
    /\ call = NoCall

SpecRound == InitRound /\ [][Next]_vars

\* ------------------------------------------------------------------------
\* Specification: draw_card called repeatedly on one vector
\* ------------------------------------------------------------------------
DrawShoes ==
    {[j \in Slots |-> IF j \in DrawSlots THEN f[j] ELSE 0] :
        f \in [DrawSlots -> 0 .. MaxCount]}

Idle ==
    /\ shoe_counts = NoVector
    /\ args = [total_rounds |-> 0, num_threads |-> 1]
    /\ run = RunIdle
    /\ wk = <<>>

InitDraw ==
    /\ Idle
    /\ \E v \in DrawShoes :
          call = [fn |-> "draw_card", start |-> v, before |-> v, temp_shoe |-> v,
                  rand_val |-> 0, card_idx |-> EMPTY, draws |-> 0]

\* card_idx = draw_card(temp_shoe)
DrawCall ==
    /\ call.fn = "draw_card"
    /\ call.draws < Total(call.start) + MaxExtraDraws
    /\ \E r \in RandVals(call.temp_shoe) :
          LET d == draw_card(call.temp_shoe, r)
          IN  call' = [call EXCEPT !.before = call.temp_shoe, !.temp_shoe = d.shoe,
                                   !.rand_val = r, !.card_idx = d.idx, !.draws = @ + 1]
    /\ UNCHANGED <<shoe_counts, args, run, wk>>

NextDraw == DrawCall

SpecDraw == InitDraw /\ [][NextDraw]_vars

\* ------------------------------------------------------------------------
\* Specification: get_hand_total called on a hand that grows card by card
\* ------------------------------------------------------------------------
HandFrame(hand) ==
    LET h == get_hand_total(hand)
    IN  [fn |-> "get_hand_total", hand |-> hand, total |-> h.total, is_soft |-> h.is_soft]

InitHand ==
    /\ Idle
    /\ \E rank \in Ranks : call = HandFrame(<<rank>>)

\* hand = np.append(hand, rank); get_hand_total(hand)
HandCall ==
    /\ call.fn = "get_hand_total"
    /\ Len(call.hand) < MaxHandLen
    /\ \E rank \in Ranks : call' = HandFrame(Append(call.hand, rank))
    /\ UNCHANGED <<shoe_counts, args, run, wk>>

NextHand == HandCall

SpecHand == InitHand /\ [][NextHand]_vars

\* ------------------------------------------------------------------------
\* Specification: the three side bets of simulate_chunk on three cards
\* ------------------------------------------------------------------------
\* p_ranks, p_suits, d_rank, d_suit and the three evaluator calls
BetsFrame(cards) ==
    LET p_ranks == <<cards[1] % NumRanks, cards[2] % NumRanks>>
        p_suits == <<cards[1] \div NumRanks, cards[2] \div NumRanks>>
        d_rank  == cards[3] % NumRanks
        d_suit  == cards[3] \div NumRanks
    IN  [fn |-> "side_bets", cards |-> cards,
         plus3 |-> evaluate_21plus3_numba(p_ranks, d_rank, p_suits, d_suit),
         pairs |-> evaluate_perfect_pairs_numba(p_ranks, p_suits),
         hot3  |-> evaluate_hot3_numba(p_ranks, d_rank)]

InitBets ==
    /\ Idle
    /\ call = [fn |-> "side_bets", cards |-> <<>>, plus3 |-> 0, pairs |-> 0,
               hot3 |-> 0]

\* p1_idx, p2_idx, d1_idx are dealt; the bets are evaluated on the third
BetsCall ==
    /\ call.fn = "side_bets"
    /\ Len(call.cards) < 3
    /\ \E idx \in Slots :
          LET cards == Append(call.cards, idx)
          IN  call' = IF Len(cards) = 3 THEN BetsFrame(cards)
                      ELSE [call EXCEPT !.cards = cards]
    /\ UNCHANGED <<shoe_counts, args, run, wk>>

NextBets == BetsCall

SpecBets == InitBets /\ [][NextBets]_vars

\* ------------------------------------------------------------------------
\* Specification: FastSimulator.__init__ encodes a shoe dictionary. A card
\* identifier is a sequence of one-character strings, a dictionary is the
\* sequence of its items in iteration order
\* ------------------------------------------------------------------------
RankNames == << <<"A">>, <<"2">>, <<"3">>, <<"4">>, <<"5">>, <<"6">>, <<"7">>,
                <<"8">>, <<"9">>, <<"1", "0">>, <<"J">>, <<"Q">>, <<"K">> >>

SuitNames == <<"S", "H", "D", "C">>

\* ranks = {'A':0, '2':1, ..., '10':9, 'J':10, 'Q':11, 'K':12}
ranks ==
    [t \in {RankNames[k] : k \in DOMAIN RankNames} |->
        (CHOOSE k \in DOMAIN RankNames : RankNames[k] = t) - 1]

\* mutant: hearts and diamonds change places in the table of suits
suits_red_swapped ==
    [u \in {SuitNames[k] : k \in DOMAIN SuitNames} |->
        IF u = "H" THEN 2 ELSE IF u = "D" THEN 1 ELSE IF u = "C" THEN 3 ELSE 0]

\* suits = {'S':0, 'H':1, 'D':2, 'C':3}
suits ==
    [u \in {SuitNames[k] : k \in DOMAIN SuitNames} |->
        (CHOOSE k \in DOMAIN SuitNames : SuitNames[k] = u) - 1]

\* card_str.startswith("10")
startswith10(card_str) ==
    Len(card_str) >= 2 /\ card_str[1] = "1" /\ card_str[2] = "0"

\* card_str[:-1] if card_str.startswith("10") else card_str[0]
rank_str(card_str) ==
    IF startswith10(card_str) THEN SubSeq(card_str, 1, Len(card_str) - 1)
    ELSE <<card_str[1]>>

\* card_str[-1]
suit_str(card_str) == card_str[Len(card_str)]

\* the body of the loop for one key: the exception it raises, or the idx
EncodeKey(card_str) ==
    IF card_str = <<>> THEN [error |-> "IndexError"]
    ELSE IF suit_str(card_str) \notin DOMAIN suits THEN [error |-> "KeyError"]
    ELSE IF rank_str(card_str) \notin DOMAIN ranks THEN [error |-> "KeyError"]
    ELSE [error |-> "none",
          idx   |-> suits[suit_str(card_str)] * NumRanks + ranks[rank_str(card_str)]]

\* identifiers a caller passes: four of the deck, and six that are not
EncodeKeys ==
    { <<"A", "S">>, <<"1", "0", "S">>, <<"2", "H">>, <<"K", "C">>,
      <<"A", "X", "S">>, <<"K", "K", "C">>, <<"1", "S">>, <<"A", "Z">>,
      <<"1", "0", "X", "S">>, <<>> }

Items == [card_str : EncodeKeys, count : 1 .. MaxCount]

\* the dictionaries of at most MaxKeys items: no key occurs twice
EncodeDicts ==
    {d \in UNION {[1 .. n -> Items] : n \in 0 .. MaxKeys} :
        \A a, b \in DOMAIN d : a # b => d[a].card_str # d[b].card_str}

\* shoe_counts = np.zeros(52, dtype=np.int32), before the loop
EncodeEntry(shoe_dict) ==
    [fn |-> "_encode_shoe", pc |-> "loop", shoe_dict |-> shoe_dict, k |-> 0,
     shoe_counts |-> NoVector, error |-> "none"]

InitEncode ==
    /\ Idle
    /\ \E d \in EncodeDicts : call = EncodeEntry(d)

\* for card_str, count in shoe_dict.items(): shoe_counts[idx] = count
EncodeItem ==
    /\ call.fn = "_encode_shoe" /\ call.pc = "loop"
    /\ call.k < Len(call.shoe_dict)
    /\ LET item == call.shoe_dict[call.k + 1]
           e    == EncodeKey(item.card_str)
       IN  call' = IF e.error # "none"
                   THEN [call EXCEPT !.pc = "raised", !.error = e.error]
                   ELSE [call EXCEPT !.k = @ + 1, !.shoe_counts[e.idx] = item.count]
    /\ UNCHANGED <<shoe_counts, args, run, wk>>

\* return shoe_counts; self.shoe_counts = the vector returned
EncodeReturn ==
    /\ call.fn = "_encode_shoe" /\ call.pc = "loop"
    /\ call.k = Len(call.shoe_dict)
    /\ call' = [call EXCEPT !.pc = "constructed"]
    /\ shoe_counts' = call.shoe_counts
    /\ UNCHANGED <<args, run, wk>>

NextEncode == EncodeItem \/ EncodeReturn

SpecEncode == InitEncode /\ [][NextEncode]_vars

\* ------------------------------------------------------------------------
\* Specification: a hand of card codes grows card by card and is valued by
\* the advisor's Hand._calculate_value and by the engine's get_hand_total
\* ------------------------------------------------------------------------
\* rank = card[:-1] if card.startswith("10") else card[0]
advisor_rank(card) ==
    IF startswith10(card) THEN SubSeq(card, 1, Len(card) - 1) ELSE <<card[1]>>

\* int(rank) for the ranks '2' .. '9'
int(rank) ==
    CASE rank = <<"2">> -> 2 [] rank = <<"3">> -> 3 [] rank = <<"4">> -> 4
      [] rank = <<"5">> -> 5 [] rank = <<"6">> -> 6 [] rank = <<"7">> -> 7
      [] rank = <<"8">> -> 8 [] rank = <<"9">> -> 9

\* what one card adds to total in the loop over self.cards
advisor_card_value(card) ==
    LET rank == advisor_rank(card)
    IN  IF rank = <<"A">> THEN 11
        ELSE IF rank \in {<<"K">>, <<"Q">>, <<"J">>, <<"1", "0">>} THEN 10
        ELSE int(rank)

RECURSIVE advisor_sum(_, _)
advisor_sum(cards, k) ==
    IF k > Len(cards) THEN 0
    ELSE advisor_card_value(cards[k]) + advisor_sum(cards, k + 1)

advisor_aces(cards) ==
    Cardinality({k \in DOMAIN cards : advisor_rank(cards[k]) = <<"A">>})

RECURSIVE advisor_reduce(_, _)
\* while total > 21 and ace_count > 0: total -= 10; ace_count -= 1
advisor_reduce(total, ace_count) ==
    IF total > 21 /\ ace_count > 0
    THEN advisor_reduce(total - 10, ace_count - 1)
    ELSE [total |-> total, ace_count |-> ace_count]

\* Hand._calculate_value
calculate_value(cards) ==
    LET soft == advisor_aces(cards) > 0
        r    == advisor_reduce(advisor_sum(cards, 1), advisor_aces(cards))
    IN  [value   |-> r.total,
         is_soft |-> IF r.total > 21 /\ soft THEN FALSE
                     ELSE IF r.ace_count = 0 THEN FALSE
                     ELSE soft]

\* the rank indices of the cards, by the tables of _encode_shoe
RankIndices(cards) == [k \in DOMAIN cards |-> ranks[rank_str(cards[k])]]

\* the thirteen cards of spades
AdvisorCards == {RankNames[k] \o <<"S">> : k \in DOMAIN RankNames}

ValuesFrame(cards) ==
    [fn |-> "hand_values", cards |-> cards,
     advisor |-> calculate_value(cards),
     engine  |-> get_hand_total(RankIndices(cards))]

InitValues ==
    /\ Idle
    /\ \E card \in AdvisorCards : call = ValuesFrame(<<card>>)

\* a card is added to the hand; Hand(cards) and get_hand_total(ranks)
ValuesCall ==
    /\ call.fn = "hand_values"
    /\ Len(call.cards) < MaxHandLen
    /\ \E card \in AdvisorCards : call' = ValuesFrame(Append(call.cards, card))
    /\ UNCHANGED <<shoe_counts, args, run, wk>>

NextValues == ValuesCall

SpecValues == InitValues /\ [][NextValues]_vars

\* ------------------------------------------------------------------------
\* Specification: the Shoe of shoe.py. A shoe is a record of decks, cards
\* (the dictionary from card code to count), total_cards and
\* initial_card_count; a method returns the shoe it leaves and what it raised
\* ------------------------------------------------------------------------
\* {f"{r}{s}" for r in ranks for s in suits}: the keys written by reset_shoe
ShoeCodes ==
    {RankNames[r] \o <<SuitNames[u]>> : r \in DOMAIN RankNames, u \in DOMAIN SuitNames}

\* dict.get(key, default)
Get(dict, key, default) == IF key \in DOMAIN dict THEN dict[key] ELSE default

\* Shoe.reset_shoe
reset_shoe(self) ==
    [self EXCEPT !.cards = [code \in ShoeCodes |-> self.decks],
                 !.total_cards = self.initial_card_count]

\* Shoe.__init__ with a positive integer number of decks
NewShoe(decks) ==
    reset_shoe([decks |-> decks, cards |-> <<>>, total_cards |-> 0,
                initial_card_count |-> 52 * decks])

\* remove_card that tests the count with >= in place of >
remove_card_at_zero(self, card_code) ==
    IF Get(self.cards, card_code, 0) >= 0 /\ card_code \in DOMAIN self.cards
    THEN [shoe |-> [self EXCEPT !.cards[card_code] = @ - 1, !.total_cards = @ - 1],
          raised |-> "none"]
    ELSE [shoe |-> self, raised |-> "ValueError"]

\* Shoe.remove_card
remove_card(self, card_code) ==
    IF Get(self.cards, card_code, 0) > 0
    THEN [shoe |-> [self EXCEPT !.cards[card_code] = @ - 1, !.total_cards = @ - 1],
          raised |-> "none"]
    ELSE [shoe |-> self, raised |-> "ValueError"]

\* restore_card without the test against decks
restore_card_unchecked(self, card_code) ==
    IF card_code \in DOMAIN self.cards
    THEN [shoe |-> [self EXCEPT !.cards[card_code] = @ + 1, !.total_cards = @ + 1],
          raised |-> "none"]
    ELSE [shoe |-> self, raised |-> "KeyError"]

\* Shoe.restore_card
restore_card(self, card_code) ==
    IF card_code \in DOMAIN self.cards
    THEN IF self.cards[card_code] < self.decks
         THEN [shoe |-> [self EXCEPT !.cards[card_code] = @ + 1, !.total_cards = @ + 1],
               raised |-> "none"]
         ELSE [shoe |-> self, raised |-> "ValueError"]
    ELSE [shoe |-> self, raised |-> "KeyError"]

\* the codes that occur in available_cards of draw_random_card
available_cards(self) == {code \in DOMAIN self.cards : self.cards[code] > 0}

\* Shoe.draw_random_card, card_to_draw being the choice of random.choice
draw_random_card(self, card_to_draw) ==
    IF self.total_cards = 0 THEN [shoe |-> self, raised |-> "ValueError"]
    ELSE IF available_cards(self) = {} THEN [shoe |-> self, raised |-> "ValueError"]
    ELSE remove_card(self, card_to_draw)

\* the cards left in a shoe late in play, every other card being removed
LateCodes == {<<"A", "S">>, <<"1", "0", "H">>}

\* a shoe of which only cards of LateCodes are left, left[code] of each
LateShoe(decks, left) ==
    [decks |-> decks,
     cards |-> [code \in ShoeCodes |-> IF code \in LateCodes THEN left[code] ELSE 0],
     total_cards |-> left[<<"A", "S">>] + left[<<"1", "0", "H">>],
     initial_card_count |-> 52 * decks]

\* the codes passed to remove_card and restore_card: cards of the shoe and
\* strings that are no card code
ShoeInputs ==
    LateCodes \cup {<<"K", "C">>, <<"1", "S">>, <<"A", "X">>, <<"1", "0">>, <<>>}

ShoeFrame(shoe, op, arg, raised, calls) ==
    [fn |-> "shoe", shoe |-> shoe, op |-> op, arg |-> arg, raised |-> raised,
     calls |-> calls]

InitShoe ==
    /\ Idle
    /\ \E decks \in 1 .. MaxDecks :
         \/ call = ShoeFrame(NewShoe(decks), "__init__", <<>>, "none", 0)
         \/ \E left \in [LateCodes -> 0 .. decks] :
              call = ShoeFrame(LateShoe(decks, left), "__init__", <<>>, "none", 0)

\* shoe.reset_shoe()
ResetShoeCall ==
    /\ call.fn = "shoe"
    /\ call.calls < MaxCalls
    /\ call' = ShoeFrame(reset_shoe(call.shoe), "reset_shoe", <<>>, "none",
                         call.calls + 1)
    /\ UNCHANGED <<shoe_counts, args, run, wk>>

\* shoe.remove_card(card_code)
RemoveCardCall ==
    /\ call.fn = "shoe"
    /\ call.calls < MaxCalls
    /\ \E card_code \in ShoeInputs :
         LET r == remove_card(call.shoe, card_code)
         IN  call' = ShoeFrame(r.shoe, "remove_card", card_code, r.raised,
                               call.calls + 1)
    /\ UNCHANGED <<shoe_counts, args, run, wk>>

\* shoe.restore_card(card_code)
RestoreCardCall ==
    /\ call.fn = "shoe"
    /\ call.calls < MaxCalls
    /\ \E card_code \in ShoeInputs :
         LET r == restore_card(call.shoe, card_code)
         IN  call' = ShoeFrame(r.shoe, "restore_card", card_code, r.raised,
                               call.calls + 1)
    /\ UNCHANGED <<shoe_counts, args, run, wk>>

\* shoe.draw_random_card(); the card drawn is recorded as arg
DrawRandomCardCall ==
    /\ call.fn = "shoe"
    /\ call.calls < MaxCalls
    /\ IF available_cards(call.shoe) = {}
       THEN call' = ShoeFrame(draw_random_card(call.shoe, <<>>).shoe,
                              "draw_random_card", <<>>,
                              draw_random_card(call.shoe, <<>>).raised,
                              call.calls + 1)
       ELSE \E card_to_draw \in available_cards(call.shoe) :
              LET r == draw_random_card(call.shoe, card_to_draw)
              IN  call' = ShoeFrame(r.shoe, "draw_random_card", card_to_draw,
                                    r.raised, call.calls + 1)
    /\ UNCHANGED <<shoe_counts, args, run, wk>>

NextShoe ==
    \/ ResetShoeCall
    \/ RemoveCardCall
    \/ RestoreCardCall
    \/ DrawRandomCardCall

SpecShoe == InitShoe /\ [][NextShoe]_vars

\* ------------------------------------------------------------------------
\* Specification: the MainWindow of gui.py with its shoe, its four counters
\* and its simulation thread. Running counts are floats in the source that
\* are all multiples of 0.5; the model stores them in half units
\* ------------------------------------------------------------------------
\* counting.get_rank
get_rank(card_code) ==
    IF startswith10(card_code) THEN <<"1", "0">> ELSE <<card_code[1]>>

\* the values tables of the four systems, in the order of RankNames
\* (A, 2, ..., 10, J, Q, K), in half units
HiLoValues   == <<-2, 2, 2, 2, 2, 2, 0, 0, 0, -2, -2, -2, -2>>
ZenValues    == <<-2, 2, 2, 4, 4, 4, 2, 0, 0, -4, -4, -4, -4>>
WongValues   == <<-2, 1, 2, 2, 3, 2, 1, 0, -1, -2, -2, -2, -2>>
Omega2Values == <<0, 2, 4, 4, 4, 4, 2, 0, -2, -4, -4, -4, -4>>

\* self.counters of MainWindow: the values table of each counter
CounterValues ==
    [hi_lo |-> HiLoValues, zen |-> ZenValues, wong_halves |-> WongValues,
     omega_ii |-> Omega2Values]

\* self.values.get(rank, 0.0)
values_get(values, rank) ==
    IF \E k \in DOMAIN RankNames : RankNames[k] = rank
    THEN values[CHOOSE k \in DOMAIN RankNames : RankNames[k] = rank]
    ELSE 0

\* CountingSystem.update on every counter of self.counters
counters_update(counters, card_code) ==
    [name \in DOMAIN counters |->
        counters[name] + values_get(CounterValues[name], get_rank(card_code))]

\* CountingSystem.undo on every counter of self.counters
counters_undo(counters, card_code) ==
    [name \in DOMAIN counters |->
        counters[name] - values_get(CounterValues[name], get_rank(card_code))]

\* CountingSystem.reset on every counter of self.counters
counters_reset(counters) == [name \in DOMAIN counters |-> 0]

\* x in list
Contains(list, x) == \E k \in DOMAIN list : list[k] = x

\* list.remove(x): the first item equal to x is deleted
list_remove(list, x) ==
    LET k == CHOOSE i \in DOMAIN list :
                 list[i] = x /\ \A j \in 1 .. i - 1 : list[j] # x
    IN  SubSeq(list, 1, k - 1) \o SubSeq(list, k + 1, Len(list))

\* MainWindow._init_round_state
init_round_state(self) ==
    [self EXCEPT !.selected_cards = [player |-> <<>>, dealer |-> <<>>, burned |-> <<>>],
                 !.action_history = <<>>,
                 !.round_card_count = 0,
                 !.current_selection_mode = "player",
                 !.last_sim_results = "None"]

\* MainWindow.update_displays: the card buttons of the cards left are enabled
update_displays(self) ==
    [self EXCEPT !.card_buttons = {code \in DOMAIN self.shoe.cards :
                                      Get(self.shoe.cards, code, 0) > 0}]

\* the part of the window that a card click writes
Entered(self) ==
    [shoe |-> self.shoe, counters |-> self.counters,
     selected_cards |-> self.selected_cards,
     action_history |-> self.action_history,
     round_card_count |-> self.round_card_count]

\* the handler that has run, its message box and what it raised; before is
\* Entered(self) at the start of a card click and <<>> after any other handler
Handled(self, handler, message, raised, before) ==
    [self EXCEPT !.handler = handler, !.message = message, !.raised = raised,
                 !.before = before]

\* MainWindow.__init__
NewWindow ==
    update_displays(init_round_state(
        [fn |-> "gui",
         shoe |-> NewShoe(GuiDecks),
         counters |-> [hi_lo |-> 0, zen |-> 0, wong_halves |-> 0, omega_ii |-> 0],
         simulation_thread |-> "None",
         simulation_worker |-> "None",
         quit_called |-> FALSE,
         events |-> <<>>,
         run_sim_button |-> TRUE,
         card_buttons |-> {},
         selected_cards |-> <<>>, action_history |-> <<>>, round_card_count |-> 0,
         current_selection_mode |-> "player", last_sim_results |-> "None",
         handler |-> "__init__", message |-> "none", raised |-> "none",
         before |-> <<>>, sims |-> 0]))

\* the card buttons pressed
GuiCards == {<<"A", "S">>, <<"K", "S">>}

Modes == {"player", "dealer", "burned"}

InitGui ==
    /\ Idle
    /\ call = NewWindow

\* the window still handles events: no handler has raised
Alive == call.fn = "gui" /\ call.raised = "none"

\* MainWindow._on_radio_toggled after the radio button of mode is checked
RadioToggled ==
    /\ Alive
    /\ \E mode \in Modes \ {call.current_selection_mode} :
         call' = Handled([call EXCEPT !.current_selection_mode = mode],
                         "_on_radio_toggled", "none", "none", <<>>)
    /\ UNCHANGED <<shoe_counts, args, run, wk>>

\* MainWindow._card_button_clicked(card_code), the button being enabled
card_button_clicked(self, card_code) ==
    LET r    == remove_card(self.shoe, card_code)
        mode == self.current_selection_mode
    IN  IF r.raised # "none"
        THEN Handled(self, "_card_button_clicked", "Card Error", "none", <<>>)
        ELSE Handled(
               update_displays(
                 [self EXCEPT
                    !.shoe = r.shoe,
                    !.selected_cards[mode] = Append(@, card_code),
                    !.counters = counters_update(@, card_code),
                    !.action_history = Append(@, <<card_code, mode>>),
                    !.round_card_count = @ + 1]),
               "_card_button_clicked", "none", "none", Entered(self))

CardButtonClicked ==
    /\ Alive
    /\ call.shoe.initial_card_count - call.shoe.total_cards < MaxEntered
    /\ \E card_code \in GuiCards \cap call.card_buttons :
         call' = card_button_clicked(call, card_code)
    /\ UNCHANGED <<shoe_counts, args, run, wk>>

\* MainWindow._undo_last_card
undo_last_card(self) ==
    IF self.action_history = <<>>
    THEN Handled(self, "_undo_last_card", "Undo", "none", <<>>)
    ELSE LET last      == self.action_history[Len(self.action_history)]
             last_card == last[1]
             last_mode == last[2]
             popped    == SubSeq(self.action_history, 1, Len(self.action_history) - 1)
             r         == restore_card(self.shoe, last_card)
             before    == IF self.handler = "_card_button_clicked"
                          THEN self.before ELSE <<>>
         IN  IF r.raised # "none"
             THEN Handled(self, "_undo_last_card", "Undo Error", "none", <<>>)
             ELSE Handled(
                    update_displays(
                      [self EXCEPT
                         !.action_history = popped,
                         !.shoe = r.shoe,
                         !.selected_cards[last_mode] =
                             IF Contains(@, last_card) THEN list_remove(@, last_card)
                             ELSE @,
                         !.counters = counters_undo(@, last_card),
                         !.round_card_count =
                             IF @ - 1 > 0 THEN @ - 1 ELSE 0]),
                    "_undo_last_card", "none", "none", before)

UndoLastCard ==
    /\ Alive
    /\ call' = undo_last_card(call)
    /\ UNCHANGED <<shoe_counts, args, run, wk>>

\* MainWindow._reset_shoe, the question being answered with Yes
ResetShoe ==
    /\ Alive
    /\ call' = Handled(
                 update_displays(init_round_state(
                   [call EXCEPT !.shoe = reset_shoe(@),
                                !.counters = counters_reset(@)])),
                 "_reset_shoe", "none", "none", <<>>)
    /\ UNCHANGED <<shoe_counts, args, run, wk>>


\* MainWindow._run_simulation, the button being enabled. isRunning() of a
\* QThread deleted by deleteLater raises RuntimeError
RunSimulation ==
    /\ Alive
    /\ call.run_sim_button
    /\ call.sims < MaxSims
    /\ call' =
         IF call.simulation_thread = "deleted"
         THEN Handled(call, "_run_simulation", "none", "RuntimeError", <<>>)
         ELSE IF call.simulation_thread = "running"
         THEN Handled(call, "_run_simulation", "Simulation in Progress", "none", <<>>)
         ELSE Handled(
                [call EXCEPT
                   !.run_sim_button = FALSE,
                   !.simulation_thread = "running",
                   !.simulation_worker = "started",
                   !.quit_called = FALSE,
                   !.events = SelectSeq(@, LAMBDA e : e # "deleteLater"),
                   !.sims = @ + 1],
                "_run_simulation", "none", "none", <<>>)
    /\ UNCHANGED <<shoe_counts, args, run, wk>>

\* SimulationWorker.run in the simulation thread: results are emitted, or an
\* exception of the engine is caught and error is emitted; the slots of the
\* window and of the thread are queued to the main thread
WorkerRun ==
    /\ call.fn = "gui"
    /\ call.simulation_worker = "started"
    /\ \/ call' = [call EXCEPT
                     !.simulation_worker = "returned",
                     !.events = @ \o <<"_on_simulation_finished", "quit">>]
       \/ call' = [call EXCEPT
                     !.simulation_worker = "returned",
                     !.events = @ \o <<"_on_simulation_error">>]
    /\ UNCHANGED <<shoe_counts, args, run, wk>>

\* MainWindow._on_simulation_finished
OnSimulationFinished ==
    /\ Alive
    /\ call.events # <<>> /\ Head(call.events) = "_on_simulation_finished"
    /\ call' = Handled(
                 update_displays(
                   [init_round_state([call EXCEPT !.run_sim_button = TRUE,
                                                  !.events = Tail(@)])
                      EXCEPT !.last_sim_results = "results"]),
                 "_on_simulation_finished", "none", "none", <<>>)
    /\ UNCHANGED <<shoe_counts, args, run, wk>>

\* MainWindow._on_simulation_error
OnSimulationError ==
    /\ Alive
    /\ call.events # <<>> /\ Head(call.events) = "_on_simulation_error"
    /\ call' = Handled([call EXCEPT !.run_sim_button = TRUE, !.events = Tail(@)],
                       "_on_simulation_error", "Simulation Error", "none", <<>>)
    /\ UNCHANGED <<shoe_counts, args, run, wk>>

\* simulation_thread.quit, connected to the finished signal of the worker
ThreadQuit ==
    /\ Alive
    /\ call.events # <<>> /\ Head(call.events) = "quit"
    /\ call' = [call EXCEPT !.quit_called = TRUE, !.events = Tail(@)]
    /\ UNCHANGED <<shoe_counts, args, run, wk>>

\* the event loop of the thread returns after quit(): the thread is no longer
\* running and its finished signal queues its deleteLater
ThreadFinished ==
    /\ call.fn = "gui"
    /\ call.simulation_thread = "running"
    /\ call.simulation_worker = "returned"
    /\ call.quit_called
    /\ call' = [call EXCEPT !.simulation_thread = "finished",
                            !.quit_called = FALSE,
                            !.events = Append(@, "deleteLater")]
    /\ UNCHANGED <<shoe_counts, args, run, wk>>

\* simulation_thread.deleteLater, connected to the finished signal of the
\* thread: the QThread object is deleted, self.simulation_thread still names it
ThreadDeleteLater ==
    /\ Alive
    /\ call.events # <<>> /\ Head(call.events) = "deleteLater"
    /\ call' = [call EXCEPT !.simulation_thread = "deleted", !.events = Tail(@)]
    /\ UNCHANGED <<shoe_counts, args, run, wk>>

NextGui ==
    \/ RadioToggled
    \/ CardButtonClicked
    \/ UndoLastCard
    \/ ResetShoe
    \/ RunSimulation
    \/ WorkerRun
    \/ OnSimulationFinished
    \/ OnSimulationError
    \/ ThreadQuit
    \/ ThreadFinished
    \/ ThreadDeleteLater

SpecGui == InitGui /\ [][NextGui]_vars

\* the event loops deliver what is queued, the engine returns, and the user
\* presses Run Simulation while its button is enabled
SpecGuiFair ==
    /\ SpecGui
    /\ WF_vars(WorkerRun)
    /\ WF_vars(OnSimulationFinished)
    /\ WF_vars(OnSimulationError)
    /\ WF_vars(ThreadQuit)
    /\ WF_vars(ThreadFinished)
    /\ WF_vars(ThreadDeleteLater)
    /\ WF_vars(RunSimulation)

\* ------------------------------------------------------------------------
\* Properties of draw_card (SpecDraw)
\* ------------------------------------------------------------------------
ZeroVector(v) == \A j \in Slots : v[j] = 0
NonNegative(v) == \A j \in Slots : v[j] >= 0

RECURSIVE PrefixSum(_, _)
\* counts[0] + ... + counts[j]
PrefixSum(counts, j) ==
    IF j < 0 THEN 0 ELSE PrefixSum(counts, j - 1) + counts[j]

Called == call.fn = "draw_card" /\ call.draws > 0

\* C1: a draw_card call on a vector of non-negative slots with sum > 0 never
\* returns EMPTY: it returns a slot j in 0..51 that was > 0 before the call,
\* decrements slot j by exactly 1, leaves the other 51 slots unchanged, and
\* the sum of the vector drops by exactly 1.
C1_DrawSucceeds ==
    (Called /\ NonNegative(call.before) /\ PrefixSum(call.before, NumSlots - 1) > 0)
    => /\ call.card_idx # EMPTY
       /\ call.card_idx \in Slots
       /\ call.before[call.card_idx] > 0
       /\ \A j \in Slots :
             call.temp_shoe[j] = call.before[j] - (IF j = call.card_idx THEN 1 ELSE 0)
       /\ PrefixSum(call.temp_shoe, NumSlots - 1)
             = PrefixSum(call.before, NumSlots - 1) - 1

\* a draw from a vector holding cards in several slots returned the last slot
C1_Witness ==
    /\ Called
    /\ call.card_idx = NumSlots - 1
    /\ call.before[0] > 0 /\ call.before[26] > 0
    /\ call.temp_shoe[NumSlots - 1] = call.before[NumSlots - 1] - 1

\* C2: from a vector of sum total > 0, the first `total` draw_card calls all
\* succeed and leave the vector all-zero; every draw_card call on an all-zero
\* vector returns EMPTY and leaves the vector unchanged.
C2_ExhaustsAfterTotalDraws ==
    call.fn = "draw_card" =>
        LET total == PrefixSum(call.start, NumSlots - 1)
        IN  /\ (call.draws <= total
                  => PrefixSum(call.temp_shoe, NumSlots - 1) = total - call.draws)
            /\ (0 < call.draws /\ call.draws <= total => call.card_idx # EMPTY)
            /\ (call.draws < total => ~ZeroVector(call.temp_shoe))
            /\ (call.draws >= total => ZeroVector(call.temp_shoe))
            /\ (Called /\ ZeroVector(call.before)
                  => call.card_idx = EMPTY /\ call.temp_shoe = call.before)

\* a vector of at least 3 cards in 2 slots was exhausted and drawn from once more
C2_Witness ==
    /\ call.fn = "draw_card"
    /\ PrefixSum(call.start, NumSlots - 1) >= 3
    /\ call.start[1] > 0 /\ call.start[NumSlots - 1] > 0
    /\ call.draws = PrefixSum(call.start, NumSlots - 1) + 1
    /\ call.card_idx = EMPTY

\* j is the least slot whose cumulative count exceeds r: the cumulative
\* counts of a vector of non-negative slots never decrease, so j is the
\* least such slot exactly when the count up to j exceeds r and the count
\* up to j - 1 does not
IsLeastExceeding(counts, j, r) ==
    /\ j \in Slots
    /\ PrefixSum(counts, j) > r
    /\ PrefixSum(counts, j - 1) <= r

RECURSIVE Tally(_, _)
\* how often draw_card returns each slot over the random values 0..r
Tally(counts, r) ==
    IF r < 0 THEN [j \in Slots |-> 0]
    ELSE [Tally(counts, r - 1) EXCEPT ![draw_card(counts, r).idx] = @ + 1]

\* C3: on a vector of sum total > 0 and for every random value r in
\* [0, total), draw_card returns the least slot j with counts[0]+...+counts[j] > r;
\* over the `total` integer values of r each slot j is returned for exactly
\* counts[j] of them, and a slot with count 0 is never returned.
C3_ProportionalSelection ==
    (Called /\ PrefixSum(call.before, NumSlots - 1) > 0)
    => LET total == PrefixSum(call.before, NumSlots - 1)
       IN  /\ NonNegative(call.before)
           /\ IsLeastExceeding(call.before, call.card_idx, call.rand_val)
           /\ call.before[call.card_idx] # 0
           \* every random value, on the first call of every initial vector:
           \* the vectors of later calls are initial vectors as well
           /\ call.draws = 1
                 => /\ \A r \in 0 .. (total - 1) :
                          \A j \in {draw_card(call.before, r).idx} :
                              IsLeastExceeding(call.before, j, r)
                    /\ Tally(call.before, total - 1) = call.before

\* slot 26 was returned from a vector with 2 cards in slot 0, none in slot 1
\* and 2 in slot 26, for the random value 3
C3_Witness ==
    /\ Called
    /\ call.before[0] = 2 /\ call.before[1] = 0 /\ call.before[26] = 2
    /\ call.rand_val = 3
    /\ call.card_idx = 26

\* ------------------------------------------------------------------------
\* Properties of get_hand_total (SpecHand)
\* ------------------------------------------------------------------------
RECURSIVE HardSum(_)
\* the hand's total with every Ace counted as 1
HardSum(hand) ==
    IF hand = <<>> THEN 0
    ELSE LET rank == Head(hand)
         IN  (IF rank >= 9 THEN 10 ELSE rank + 1) + HardSum(Tail(hand))

NumAces(hand) == Cardinality({k \in 1 .. Len(hand) : hand[k] = 0})

\* the totals reachable by counting each Ace as 1 or as 11
Reachable(hand) == {HardSum(hand) + 10 * k : k \in 0 .. NumAces(hand)}

BestTotal(hand) ==
    IF \E t \in Reachable(hand) : t <= 21
    THEN CHOOSE t \in Reachable(hand) :
            t <= 21 /\ \A u \in Reachable(hand) : u <= 21 => u <= t
    ELSE HardSum(hand)

\* C5: get_hand_total returns the highest total <= 21 reachable by counting
\* each Ace as 1 or 11 (others: 10 for rank >= 9, else rank + 1), or the
\* all-Aces-as-1 total when every such total exceeds 21; A+A+9 gives 21.
C5_TotalIsBestAceAssignment ==
    call.fn = "get_hand_total"
    => /\ call.total = BestTotal(call.hand)
       /\ (call.hand = <<0, 0, 8>> => call.total = 21)

\* a hand with two Aces that both had to be reduced: A + A + K + 9 = 21
C5_Witness ==
    /\ call.fn = "get_hand_total"
    /\ call.hand = <<0, 0, 12, 8>>
    /\ call.total = 21

\* the number of Aces still counted as 11 in the total returned
AcesAsEleven(hand, total) == (total - HardSum(hand)) \div 10

\* C6: get_hand_total reports a hand soft if and only if, after the ace
\* reduction, at least one Ace is still counted as 11; a hand whose Aces all
\* had to be reduced to 1 (Ace+King+5, Ace+Ace+King) is reported hard.
C6_SoftIffAceCountsEleven ==
    call.fn = "get_hand_total"
    => (call.is_soft <=> AcesAsEleven(call.hand, call.total) >= 1)

\* ------------------------------------------------------------------------
\* Properties of the rounds of simulate_chunk (Spec)
\* ------------------------------------------------------------------------
Sum(v) == PrefixSum(v, NumSlots - 1)

RECURSIVE SumLens(_)
SumLens(hands) == IF hands = <<>> THEN 0 ELSE Len(Head(hands)) + SumLens(Tail(hands))

\* the cards the round has drawn so far: those of the player's and the
\* dealer's hands, or the cards of the deal before the hands are formed
CardsDealt(s) ==
    IF s.hands = <<>>
    THEN Cardinality({k \in 1 .. 3 : <<s.p1_idx, s.p2_idx, s.d1_idx>>[k] # EMPTY})
    ELSE SumLens(s.hands) + Len(s.dealer_hand)

\* the worker has started a round
InRound(s) == s.act # "none"

RoundConserves(s) ==
    InRound(s) => /\ NonNegative(s.temp_shoe)
                  /\ Sum(s.temp_shoe) + CardsDealt(s) = Sum(s.shoe_counts)

\* C4: in every state of a round every slot of the working vector is >= 0,
\* the vector's sum never increases from one step of the round to the next,
\* and the sum plus the number of cards dealt so far equals the sum the
\* vector had when the round started.
C4_RoundConservesCards ==
    \A w \in DOMAIN wk :
        /\ RoundConserves(wk[w])
        /\ (InRound(wk[w]) /\ wk[w].act # "copy")
              => Sum(wk[w].temp_shoe) <= wk[w].prev_sum

\* the dealer has just drawn a card in a round the player hit in
C4_Witness ==
    \E w \in DOMAIN wk :
        /\ wk[w].act = "dealer_hit"
        /\ Len(wk[w].hands) = 1 /\ Len(wk[w].hands[1]) >= 3
        /\ Sum(wk[w].temp_shoe) = wk[w].prev_sum - 1
        /\ CardsDealt(wk[w]) >= 6

\* main-bet values (half units) of a round with one hand: -2, -1, 0, 1, 1.5, 2
SingleMain == {-4, -2, 0, 2, 3, 4}
\* main-bet values (half units) of a split round: the integers -4 .. 4
SplitMain == {2 * k : k \in -4 .. 4}

UpValue(d_rank) == IF d_rank = 0 THEN 11 ELSE IF d_rank >= 9 THEN 10 ELSE d_rank + 1

\* the pairs simulate_chunk splits: Aces and 8s always, 9s unless the up-card
\* counts 7, 10 or 11, 2s, 3s and 7s against at most 7, 6s against at most 6
SplitRule(p_ranks, d_rank) ==
    /\ p_ranks[1] = p_ranks[2]
    /\ \/ p_ranks[1] = 0 \/ p_ranks[1] = 7
       \/ (p_ranks[1] = 8 /\ UpValue(d_rank) \notin {7, 10, 11})
       \/ (p_ranks[1] \in {1, 2, 6} /\ UpValue(d_rank) <= 7)
       \/ (p_ranks[1] = 5 /\ UpValue(d_rank) <= 6)

C8_RoundsShareVector ==
    [][\A w \in DOMAIN wk :
          (wk[w].pc = "start" /\ wk[w].i >= 1 /\ wk'[w].pc = "deal_p1")
             => /\ wk'[w].temp_shoe = wk[w].temp_shoe
                /\ Sum(wk'[w].temp_shoe) <= Sum(wk[w].temp_shoe)]_vars

\* C8 amended: within one worker every round starts from a fresh copy of the
\* vector the chunk was given, whatever the rounds before it drew: a card
\* drawn in one round is available again to every later round of the worker;
\* the vector the chunk was given stays equal to the simulator's vector
\* whatever this or another worker draws.
C8_RoundsStartFromFreshCopy ==
    \A w \in DOMAIN wk :
        /\ wk[w].shoe_counts = shoe_counts
        /\ (wk[w].pc = "deal_p1" => wk[w].temp_shoe = shoe_counts)

\* a worker has drawn the first card of its second round after a first round
\* that dealt cards
C8_Witness ==
    \E w \in DOMAIN wk :
        /\ wk[w].i = 1 /\ wk[w].pc = "deal_p2"
        /\ wk[w].results[1] # ZeroRow
        /\ Sum(wk[w].temp_shoe) = Sum(shoe_counts) - 1

\* C9: for total_rounds >= 1 the per-worker round counts differ by at most 1
\* and sum to total_rounds, and the concatenated result holds exactly
\* total_rounds rows.
C9_NoRoundDropped ==
    (run.pc = "returned" /\ args.total_rounds >= 1)
    => /\ \A v, w \in DOMAIN wk : wk[v].rounds - wk[w].rounds \in {-1, 0, 1}
       /\ SumLens([w \in DOMAIN wk |-> wk[w].results]) = args.total_rounds
       /\ Len(run.all_results) = args.total_rounds

\* the stand rule of the claim, with soft meaning an Ace counted as 11
ClaimStand(hand, up) ==
    LET total == BestTotal(hand)
        soft  == AcesAsEleven(hand, total) >= 1
    IN  \/ total >= 21
        \/ (soft /\ total >= 19)
        \/ (soft /\ total = 18 /\ up <= 7)
        \/ (~soft /\ total >= 17)
        \/ (~soft /\ total >= 13 /\ up <= 5)
        \/ (~soft /\ total = 12 /\ up \in {3, 4, 5})

\* C10: at every decision point where the player does not double,
\* _play_single_hand stands exactly when the stand rule holds (soft = an Ace
\* is counted as 11) and otherwise draws one card; the player never draws on
\* a hard total of 17 or more.
C10_StandRule ==
    [][\A w \in DOMAIN wk :
          (wk[w].pc = "play" /\ wk'[w] # wk[w] /\ wk'[w].act # "double")
             => /\ (wk'[w].act = "stand")
                      <=> ClaimStand(CurHand(wk[w]), DRank(wk[w]))
                /\ (wk'[w].act \in {"hit", "hit_empty"}
                      => ~(AcesAsEleven(CurHand(wk[w]), BestTotal(CurHand(wk[w]))) = 0
                           /\ BestTotal(CurHand(wk[w])) >= 17))]_vars

\* ------------------------------------------------------------------------
\* Properties of _play_single_hand and of the dealer loop (SpecRound)
\* ------------------------------------------------------------------------
\* the cards the statement executed last drew from the working vector
Drawn(s) == s.prev_sum - Sum(s.temp_shoe)

\* the hand _play_single_hand was playing in the statement executed last
LastHand(s) ==
    IF s.act = "hit" THEN s.hands[s.cur] ELSE s.hands[Len(s.finals)]

\* that hand as it was before the statement
HandBefore(s) == SubSeq(LastHand(s), 1, Len(LastHand(s)) - Drawn(s))

PlayActs == {"double", "stand", "hit", "hit_empty"}

\* the doubling rule of the claim, with soft meaning an Ace counted as 11
ClaimDouble(hand, up) ==
    LET total == BestTotal(hand)
        soft  == AcesAsEleven(hand, total) >= 1
    IN  /\ Len(hand) = 2
        /\ \/ (soft /\ total \in {17, 18} /\ up \in 2 .. 5)
           \/ (~soft /\ total = 11)
           \/ (~soft /\ total = 10 /\ up <= 8)
           \/ (~soft /\ total = 9 /\ up \in 2 .. 5)

TwoCardHands == {<<a, b>> : a \in Ranks, b \in Ranks}

\* C11: _play_single_hand doubles if and only if the hand has exactly 2
\* cards and one of: soft 17 or 18 with dealer up-rank in 2..5; hard 11;
\* hard 10 with up-rank <= 8; hard 9 with up-rank in 2..5. A hand of 3 or
\* more cards never doubles.
C11_DoubleRule ==
    /\ wk = <<>> =>
          \A hand \in TwoCardHands : \A up \in Ranks :
              DoDouble(hand, up) <=> ClaimDouble(hand, up)
    /\ \A w \in DOMAIN wk :
          LET s == wk[w]
          IN  /\ s.act \in PlayActs
                    => (s.act = "double" <=> ClaimDouble(HandBefore(s), DRank(s)))
              /\ s.act = "double" => Len(HandBefore(s)) = 2
              /\ s.pc = "play"
                    => (WillDouble(s) <=> ClaimDouble(CurHand(s), DRank(s)))

\* the player doubled on soft 17 (Ace and 6) against a dealer 6, rank 5
C11_Witness ==
    \E w \in DOMAIN wk :
        /\ wk[w].act = "double"
        /\ HandBefore(wk[w]) \in {<<0, 5>>, <<5, 0>>}
        /\ DRank(wk[w]) = 5
        /\ Len(LastHand(wk[w])) = 3

\* C12: when the player doubles, exactly one card is drawn into the hand
\* (none only if the shoe is exhausted), the policy is not consulted again
\* for that hand and its multiplier is 2.0; a hand that did not double has
\* multiplier 1.0, so a multiplier of 2.0 implies a final hand of at most 3
\* cards.
C12_DoubleDrawsOneCard ==
    \A w \in DOMAIN wk :
        LET s == wk[w]
            n == Len(s.finals)
        IN  /\ s.act = "double"
                  => /\ n >= 1
                     /\ s.pc = "play" => (s.cur = n + 1 /\ s.entry)
                     /\ s.finals[n].mult = 4
                     /\ Drawn(s) = (IF s.prev_sum > 0 THEN 1 ELSE 0)
                     /\ Len(s.hands[n]) = 2 + Drawn(s)
            /\ s.act \in {"stand", "hit_empty"}
                  => (n >= 1 /\ s.finals[n].mult = 2)
            /\ \A k \in 1 .. n :
                  /\ s.finals[k].mult \in {2, 4}
                  /\ s.finals[k].mult = 4 => Len(s.hands[k]) <= 3
                  /\ s.finals[k].total = BestTotal(s.hands[k])

\* a round was resolved in which the player doubled, drew one card and won
\* twice the stake
C12_Witness ==
    \E w \in DOMAIN wk :
        /\ wk[w].pc = "start" /\ wk[w].i = 1
        /\ Len(wk[w].finals) = 1 /\ wk[w].finals[1].mult = 4
        /\ Len(wk[w].hands[1]) = 3
        /\ wk[w].results[1][1] = 4

\* all cards of a hand but the last
Front(hand) == SubSeq(hand, 1, Len(hand) - 1)

\* C13: in the dealer turn the dealer draws a card exactly when the dealer
\* total is below 17, on hard and soft hands alike, and never at 17 or more
\* (soft 17 included); when the dealer turn ends without the shoe being
\* exhausted the final total is >= 17 and, if the dealer drew, the total
\* before the last drawn card was < 17.
C13_DealerDrawsBelow17 ==
    \A w \in DOMAIN wk :
        LET s == wk[w]
        IN  /\ s.pc = "dealer"
                  => (DealerMustDraw(s.dealer_hand) <=> BestTotal(s.dealer_hand) < 17)
            /\ s.act = "dealer_hit"
                  => /\ Len(s.dealer_hand) >= 3 /\ Drawn(s) = 1
                     /\ BestTotal(Front(s.dealer_hand)) < 17
            /\ s.act = "dealer_empty"
                  => /\ BestTotal(s.dealer_hand) < 17
                     /\ s.prev_sum = 0 /\ Drawn(s) = 0
            /\ s.act = "resolve"
                  => /\ BestTotal(s.dealer_hand) >= 17
                     /\ Drawn(s) = 0
                     /\ Len(s.dealer_hand) > 2
                           => BestTotal(Front(s.dealer_hand)) < 17

\* the dealer stood on a soft 17 (Ace and 6) with cards left in the shoe
C13_Witness ==
    \E w \in DOMAIN wk :
        /\ wk[w].act = "resolve"
        /\ wk[w].dealer_hand \in {<<0, 5>>, <<5, 0>>}
        /\ Sum(wk[w].temp_shoe) > 0

\* ------------------------------------------------------------------------
\* Properties of the resolution of a round (Spec, SpecRound)
\* ------------------------------------------------------------------------
\* the main-bet rule of the claims: player total p, dealer total d, stake m
ClaimOutcome(p, d, m) ==
    IF p > 21 THEN 0 - m
    ELSE IF d > 21 \/ p > d THEN m
    ELSE IF p < d THEN 0 - m
    ELSE 0

\* the stake of hand k: that of its return, or 1.0 if it was never played
StakeOf(s, k) == IF k <= Len(s.finals) THEN s.finals[k].mult ELSE 2

\* the main bet of the round from the totals its hands have accumulated
OutcomeFromTotals(s) ==
    LET d == BestTotal(s.dealer_hand)
        o(k) == ClaimOutcome(BestTotal(s.hands[k]), d, StakeOf(s, k))
    IN  IF Len(s.hands) = 2 THEN o(1) + o(2) ELSE o(1)

\* a draw of the player turn or of the dealer turn returned EMPTY
ExhaustedInTurn(s) ==
    \/ s.act \in {"hit_empty", "dealer_empty", "abort_split"}
    \/ (s.act = "double" /\ s.prev_sum = 0)

\* C14: if a draw returns EMPTY during the player turn or the dealer turn,
\* that turn ends with the total accumulated so far, the round is still
\* resolved from those totals and yields its outcome row, no error is
\* raised, and the remaining rounds of the chunk are still executed.
C14_ExhaustionStillResolves ==
    \A w \in DOMAIN wk :
        LET s == wk[w]
            n == Len(s.finals)
        IN  /\ (s.act = "hit_empty" \/ (s.act = "double" /\ s.prev_sum = 0))
                  => /\ n >= 1 /\ Drawn(s) = 0
                     /\ s.finals[n].total = BestTotal(s.hands[n])
                     /\ s.pc \in {"play", "dealer"}
            /\ s.act \in {"dealer_empty", "abort_split"}
                  => /\ s.pc = "start" /\ s.i >= 1 /\ s.i <= s.rounds
                     /\ s.results[s.i][1] = OutcomeFromTotals(s)
                     /\ s.results[s.i][2] \in {Pay(-1), Pay(1), Pay(2), Pay(15)}
            /\ s.pc = "done" => s.i = s.rounds

\* the round finished last by worker frame s dealt its four cards, and the
\* player's or the dealer's first two cards total 21
NaturalRound(s) ==
    /\ s.pc \in {"start", "done"} /\ s.i >= 1
    /\ Len(s.dealer_hand) >= 2
    /\ \/ BestTotal(PRanks(s)) = 21
       \/ BestTotal(SubSeq(s.dealer_hand, 1, 2)) = 21

Resolved(s) ==
    /\ s.pc \in {"start", "done"} /\ s.i >= 1
    /\ s.finals # <<>>

\* the totals and stakes a resolution may meet
Totals == 2 .. 31
Stakes == {2, 4}

BustField(s) == s.results[s.i][2]

BetsDone == call.fn = "side_bets" /\ Len(call.cards) = 3

CardRank(k) == call.cards[k] % NumRanks
CardSuit(k) == call.cards[k] \div NumRanks

AllSevens == \A k \in 1 .. 3 : CardRank(k) = 6
Suited == CardSuit(1) = CardSuit(2) /\ CardSuit(2) = CardSuit(3)
ThreeCardTotal == BestTotal(<<CardRank(1), CardRank(2), CardRank(3)>>)

CardRanks == {CardRank(k) : k \in 1 .. 3}

\* all three suits are equal
ClaimFlush == Suited
\* all three ranks are equal
ClaimThreeKind == CardRank(1) = CardRank(2) /\ CardRank(2) = CardRank(3)
\* the three ranks are distinct and consecutive, or are Ace, Queen, King
ClaimStraight ==
    \/ \E low \in Ranks : CardRanks = {low, low + 1, low + 2}
    \/ CardRanks = {0, 11, 12}

\* C19: evaluate_21plus3_numba on the two player cards and the dealer
\* up-card returns, by priority: +100 if all three share rank and suit; +40
\* if straight and flush; +30 if all three share a rank; +10 if straight; +5
\* if flush; else -1; flush means all three suits are equal and straight
\* means the three ranks are distinct and consecutive or are exactly Ace,
\* Queen, King. A-Q-K of spades and 5-6-7 of one suit pay +40, and 5 of
\* clubs, 6 of diamonds, 7 of spades pays +10.
C19_TwentyOnePlusThree ==
    BetsDone
    => /\ call.plus3 = (IF ClaimThreeKind /\ ClaimFlush THEN Pay(100)
                        ELSE IF ClaimStraight /\ ClaimFlush THEN Pay(40)
                        ELSE IF ClaimThreeKind THEN Pay(30)
                        ELSE IF ClaimStraight THEN Pay(10)
                        ELSE IF ClaimFlush THEN Pay(5)
                        ELSE Pay(-1))
       /\ {call.cards[k] : k \in 1 .. 3} = {0, 11, 12} => call.plus3 = Pay(40)
       /\ (CardRanks = {4, 5, 6} /\ Suited) => call.plus3 = Pay(40)
       /\ {call.cards[k] : k \in 1 .. 3} = {43, 31, 6} => call.plus3 = Pay(10)

\* King, Ace and Queen of spades, in that order: a straight flush
C19_Witness ==
    /\ BetsDone
    /\ call.cards = <<12, 0, 11>>
    /\ call.plus3 = Pay(40)

\* suits 1 and 2 are red, suits 0 and 3 are black
SameColour(a, b) == (a \in {1, 2}) = (b \in {1, 2})

\* C20: evaluate_perfect_pairs_numba on the two player cards returns -1 when
\* the ranks differ, +25 when rank and suit are both equal, +12 when the
\* ranks are equal and the two suits differ but have the same colour (suits
\* 1 and 2 are red, suits 0 and 3 are black), and +6 when the ranks are
\* equal and the colours differ.
C20_PerfectPairs ==
    BetsDone
    => call.pairs = (IF CardRank(1) # CardRank(2) THEN Pay(-1)
                     ELSE IF CardSuit(1) = CardSuit(2) THEN Pay(25)
                     ELSE IF SameColour(CardSuit(1), CardSuit(2)) THEN Pay(12)
                     ELSE Pay(6))

\* the 7 of spades with the 7 of clubs: a pair of one colour paid +12
C20_Witness ==
    /\ BetsDone
    /\ call.cards[1] = 6 /\ call.cards[2] = 45
    /\ call.pairs = Pay(12)

\* ------------------------------------------------------------------------
\* Properties of the deal and of the order of a round (SpecRound)
\* ------------------------------------------------------------------------
\* vector v with the card of index idx taken out, v itself for EMPTY
Minus(v, idx) == IF idx = EMPTY THEN v ELSE [v EXCEPT ![idx] = @ - 1]

DealIndices(s) == {s.p1_idx, s.p2_idx, s.d1_idx}

\* the round of frame s is over, or none has begun
BetweenRounds(s) == s.pc \in {"start", "done"}

\* C21: each round draws player card 1, player card 2 and the dealer
\* up-card as its first three draws in that order; if any of these three
\* draws returns EMPTY the round's outcome row is all zeros in all five
\* fields.
C21_DealAbort ==
    \A w \in DOMAIN wk :
        LET s == wk[w]
        IN  /\ s.pc = "deal_p1"
                  => /\ s.temp_shoe = s.shoe_counts
                     /\ DealIndices(s) = {EMPTY}
            /\ s.pc = "deal_p2"
                  => /\ s.temp_shoe = Minus(s.shoe_counts, s.p1_idx)
                     /\ s.p2_idx = EMPTY /\ s.d1_idx = EMPTY
                     /\ s.p1_idx = EMPTY <=> Sum(s.shoe_counts) = 0
            /\ s.pc = "deal_d1"
                  => /\ s.temp_shoe = Minus(Minus(s.shoe_counts, s.p1_idx), s.p2_idx)
                     /\ s.d1_idx = EMPTY
            /\ s.pc \in {"hole", "split1", "split2", "play", "dealer"}
                  => /\ EMPTY \notin DealIndices(s)
                     /\ Sum(s.temp_shoe) <= Sum(s.shoe_counts) - 3
            /\ s.pc = "hole"
                  => s.temp_shoe = Minus(Minus(Minus(s.shoe_counts, s.p1_idx),
                                               s.p2_idx), s.d1_idx)
            /\ s.act = "abort_deal"
                  => /\ BetweenRounds(s) /\ EMPTY \in DealIndices(s)
                     /\ Sum(s.shoe_counts) < 3
            /\ (BetweenRounds(s) /\ s.i >= 1 /\ s.act # "none"
                   /\ EMPTY \in DealIndices(s))
                  => /\ s.results[s.i] = ZeroRow
                     /\ s.act \in {"abort_deal", "return"}

\* a round on a vector of two cards dealt both to the player, found no
\* up-card and left its row all zeros
C21_Witness ==
    \E w \in DOMAIN wk :
        /\ wk[w].act = "abort_deal"
        /\ wk[w].p1_idx # EMPTY /\ wk[w].p2_idx # EMPTY /\ wk[w].d1_idx = EMPTY
        /\ wk[w].results[wk[w].i] = ZeroRow
        /\ Sum(wk[w].temp_shoe) = 0

\* frame s is inside a round, after its deal
AfterDeal(s) == s.pc \in {"hole", "split1", "split2", "play", "dealer"}

\* the row of the round frame s is in, or has just left
RoundRow(s) == IF AfterDeal(s) THEN s.results[s.i + 1] ELSE s.results[s.i]

SideBetsFromDeal(s) ==
    /\ RoundRow(s)[3] = evaluate_21plus3_numba(PRanks(s), DRank(s), PSuits(s), DSuit(s))
    /\ RoundRow(s)[4] = evaluate_perfect_pairs_numba(PRanks(s), PSuits(s))
    /\ RoundRow(s)[5] = evaluate_hot3_numba(PRanks(s), DRank(s))

\* C22: in every round whose first three draws all succeed, the 21+3,
\* Perfect Pairs and Hot 3 fields equal the evaluators' results on the two
\* player cards and the up-card, whatever happens afterwards (naturals, a
\* failed hole card draw, exhaustion in a turn): no later step changes them.
C22_SideBetsKept ==
    \A w \in DOMAIN wk :
        LET s == wk[w]
        IN  /\ AfterDeal(s) => SideBetsFromDeal(s)
            /\ (BetweenRounds(s) /\ s.i >= 1 /\ s.act # "none"
                   /\ EMPTY \notin DealIndices(s))
                  => SideBetsFromDeal(s)

\* a pair of one suit was split, the split found no card, and the round
\* was left with its Perfect Pairs field at +25
C22_Witness ==
    \E w \in DOMAIN wk :
        /\ wk[w].act = "abort_split"
        /\ wk[w].results[wk[w].i][4] = Pay(25)
        /\ wk[w].results[wk[w].i][1] = 0

\* the cards frame s has drawn from its working copy in the round
DrawnInRound(s) == Sum(s.shoe_counts) - Sum(s.temp_shoe)

MainAndBustUnwritten(s) == RoundRow(s)[1] = 0 /\ RoundRow(s)[2] = 0

AllHandsPlayed(s) == s.finals # <<>> /\ Len(s.finals) = Len(s.hands)

\* C23: a round passes through its phases only in the order DEAL,
\* CHECK_NATURALS, PLAYER_TURN, DEALER_TURN, RESOLVE, DONE: the hole card is
\* the fourth card drawn, every card the player's policy draws is drawn
\* before any dealer hit, and the main-bet and bust fields of a non-natural
\* round are written only after the dealer's turn has ended.
C23_PhaseOrder ==
    \A w \in DOMAIN wk :
        LET s == wk[w]
        IN  /\ s.pc = "hole"
                  => /\ DrawnInRound(s) = 3 /\ Len(s.dealer_hand) = 1
                     /\ s.finals = <<>> /\ MainAndBustUnwritten(s)
            /\ (s.pc = "split1" \/ (s.pc = "play" /\ Len(s.hands) = 1 /\ s.entry))
                  => DrawnInRound(s) = 4
            /\ s.act = "natural"
                  => /\ DrawnInRound(s) = 4 /\ BetweenRounds(s)
                     /\ s.finals = <<>> /\ RoundRow(s)[2] = 0
            /\ s.pc \in {"split1", "split2", "play"}
                  => /\ Len(s.dealer_hand) = 2
                     /\ Len(s.finals) = IF s.pc = "play" THEN s.cur - 1 ELSE 0
                     /\ Len(s.finals) < Len(s.hands)
                     /\ MainAndBustUnwritten(s)
            /\ s.pc = "dealer"
                  => /\ AllHandsPlayed(s) /\ Len(s.dealer_hand) >= 2
                     /\ MainAndBustUnwritten(s)
            /\ (InRound(s) /\ Len(s.dealer_hand) > 2)
                  => /\ s.pc = "dealer" \/ BetweenRounds(s)
                     /\ AllHandsPlayed(s)
                     /\ DrawnInRound(s) = SumLens(s.hands) + Len(s.dealer_hand)
            /\ (BetweenRounds(s) /\ s.i >= 1 /\ InRound(s) /\ ~MainAndBustUnwritten(s))
                  => \/ NaturalRound(s) /\ s.finals = <<>>
                     \/ /\ AllHandsPlayed(s)
                        /\ ~DealerMustDraw(s.dealer_hand) \/ Sum(s.temp_shoe) = 0
            /\ (BetweenRounds(s) /\ s.i >= 1 /\ AllHandsPlayed(s))
                  => RoundRow(s)[2] # 0

\* both hands of a split were played to their end, the dealer then drew,
\* and the round was resolved
C23_Witness ==
    \E w \in DOMAIN wk :
        /\ wk[w].act = "resolve"
        /\ Len(wk[w].hands) = 2 /\ SumLens(wk[w].hands) >= 5
        /\ Len(wk[w].dealer_hand) >= 3
        /\ wk[w].results[wk[w].i][1] # 0

\* ------------------------------------------------------------------------
\* Properties of FastSimulator.run (Spec)
\* ------------------------------------------------------------------------
RECURSIVE CellsAbove(_, _, _)
\* the sum of field col over the rows k, k-1, ... 1 of one worker
CellsAbove(rows, col, k) ==
    IF k = 0 THEN 0 ELSE CellsAbove(rows, col, k - 1) + rows[k][col]

RECURSIVE CellsOfWorkers(_, _)
\* the sum of field col over the rows of the workers w, w-1, ... 1
CellsOfWorkers(col, w) ==
    IF w = 0 THEN 0
    ELSE CellsOfWorkers(col, w - 1) + CellsAbove(wk[w].results, col, Len(wk[w].results))

RECURSIVE RowsOfWorkers(_)
RowsOfWorkers(w) == IF w = 0 THEN 0 ELSE RowsOfWorkers(w - 1) + Len(wk[w].results)

Returned == run.pc = "returned"

\* C24: for total_rounds >= 1 the EV map returned by run has exactly five
\* entries, for main, bust, 21+3, perfect-pairs and hot-3, and their values
\* are the sums of the outcome columns over the rows of all workers, each
\* divided by the total number of rows produced, all-zero rows of aborted
\* rounds included.
C24_ColumnMeans ==
    (Returned /\ args.total_rounds >= 1) =>
        /\ DOMAIN run.evs = {"main_ev", "bust_ev", "21+3_ev", "perfect_pairs_ev", "hot3_ev"}
        /\ Cardinality(DOMAIN run.evs) = 5
        /\ RowsOfWorkers(Len(wk)) >= 1
        /\ RowsOfWorkers(Len(wk)) = run.num_threads * run.rounds_per_thread
        /\ \A k \in DOMAIN run.evs : run.evs[k].n = RowsOfWorkers(Len(wk))
        /\ run.evs["main_ev"].sum = CellsOfWorkers(1, Len(wk))
        /\ run.evs["bust_ev"].sum = CellsOfWorkers(2, Len(wk))
        /\ run.evs["21+3_ev"].sum = CellsOfWorkers(3, Len(wk))
        /\ run.evs["perfect_pairs_ev"].sum = CellsOfWorkers(4, Len(wk))
        /\ run.evs["hot3_ev"].sum = CellsOfWorkers(5, Len(wk))

\* two workers dealt different rounds, one a pair of one suit, and the map
\* holds the mean of their two rows
C24_Witness ==
    /\ Returned /\ Len(wk) = 2
    /\ wk[1].results[1][4] = Pay(-1) /\ wk[2].results[1][4] = Pay(25)
    /\ run.evs["perfect_pairs_ev"] = [sum |-> Pay(24), n |-> 2]
    /\ run.evs["main_ev"].sum = 0

\* C25: run with total_rounds == 0 returns an empty EV map for any worker
\* count, raises no error and starts no worker.
C25_ZeroRounds ==
    args.total_rounds = 0 =>
        /\ wk = <<>>
        /\ run.pc \in {"idle", "returned"}
        /\ Returned => /\ run.evs = NoEvs /\ DOMAIN run.evs = {}
                       /\ run.all_results = <<>>

\* run was called for no rounds with the largest worker count on a vector
\* that holds cards, and has returned
C25_Witness ==
    /\ Returned /\ args.total_rounds = 0 /\ args.num_threads = MaxThreads
    /\ Total(shoe_counts) > 0
    /\ run.evs = NoEvs /\ wk = <<>>

\* the step taken is a draw of worker w, or a copy, made from w's own vectors
OwnVectorStep(w) ==
    \/ wk'[w].temp_shoe = wk[w].temp_shoe
    \/ wk'[w].act = "copy" /\ wk'[w].temp_shoe = wk[w].shoe_counts
    \/ \E j \in Slots : /\ wk[w].temp_shoe[j] > 0
                        /\ wk'[w].temp_shoe = Minus(wk[w].temp_shoe, j)

\* C26: no draw made by any worker changes the simulator's stored count
\* vector or the vector of another worker: under every interleaving of the
\* workers the stored vector after run returns equals its value before
\* run, and each worker's draws depend only on its own copy.
C26_WorkersIsolated ==
    [][/\ shoe_counts' = shoe_counts
       /\ (wk = <<>> /\ wk' # <<>>)
             => \A w \in DOMAIN wk' : wk'[w].shoe_counts = shoe_counts
       /\ wk # <<>>
             => /\ DOMAIN wk' = DOMAIN wk
                /\ \A w \in DOMAIN wk :
                      /\ wk'[w].shoe_counts = wk[w].shoe_counts
                      /\ OwnVectorStep(w)
                      /\ wk'[w] # wk[w]
                            => \A v \in DOMAIN wk \ {w} : wk'[v] = wk[v]]_vars

\* run has returned with two workers that each drew every card of their
\* own copy, in different orders, and the stored vector still holds its
\* three cards
C26_Witness ==
    /\ Returned /\ Len(wk) = 2
    /\ wk[1].results # wk[2].results
    /\ Sum(shoe_counts) = 3
    /\ \A w \in DOMAIN wk : /\ wk[w].shoe_counts = shoe_counts
                            /\ Sum(wk[w].temp_shoe) = 0

\* ------------------------------------------------------------------------
\* Properties of _encode_shoe (SpecEncode)
\* ------------------------------------------------------------------------
\* the identifier of rank r (0 = A .. 12 = K) and suit u (0 = S, 1 = H,
\* 2 = D, 3 = C): the rank's name followed by the suit's letter
Identifier(r, u) ==
    << <<"A">>, <<"2">>, <<"3">>, <<"4">>, <<"5">>, <<"6">>, <<"7">>, <<"8">>,
       <<"9">>, <<"1", "0">>, <<"J">>, <<"Q">>, <<"K">> >>[r + 1]
    \o << <<"S", "H", "D", "C">>[u + 1] >>

Suits == 0 .. 3

ValidIdentifiers == {Identifier(r, u) : r \in Ranks, u \in Suits}

Encoding == call.fn = "_encode_shoe"

\* the keys of the items the loop has been through without an exception
EncodedKeys == {call.shoe_dict[k].card_str : k \in 1 .. call.k}

\* C27: constructing the simulator from a mapping that contains any key
\* other than the 52 identifiers formed by a rank in A,2,...,10,J,Q,K
\* followed by a suit in S,H,D,C raises an error before any round is
\* simulated; no malformed key is silently encoded into a slot of the
\* count vector.
C27_MalformedKeysRaise ==
    Encoding =>
        /\ EncodedKeys \subseteq ValidIdentifiers
        /\ call.pc = "constructed"
              => \A k \in DOMAIN call.shoe_dict :
                    call.shoe_dict[k].card_str \in ValidIdentifiers

\* the count the mapping gives identifier id, 0 when id is not a key
CountOf(shoe_dict, id) ==
    IF \E k \in DOMAIN shoe_dict : shoe_dict[k].card_str = id
    THEN shoe_dict[CHOOSE k \in DOMAIN shoe_dict : shoe_dict[k].card_str = id].count
    ELSE 0

\* C28: _encode_shoe maps the 52 valid identifiers one-to-one onto slots
\* 0..51 with slot = suit*13 + rank (A=0..K=12; S=0, H=1, D=2, C=3): each
\* identifier's count is stored in its own slot, identifiers absent from
\* the mapping give 0, and decoding slot j as rank j mod 13 and suit
\* j div 13, as the round simulator does, recovers the original rank and
\* suit, so encode followed by decode returns the original count of every
\* card.
C28_EncodeRoundTrip ==
    Encoding =>
        /\ call.shoe_dict = <<>>
              => /\ Cardinality(ValidIdentifiers) = NumSlots
                 /\ \A r \in Ranks, u \in Suits :
                       LET e == EncodeKey(Identifier(r, u))
                       IN  /\ e.error = "none"
                           /\ e.idx = u * NumRanks + r
                           /\ e.idx \in Slots
                           /\ e.idx % NumRanks = r /\ e.idx \div NumRanks = u
                 /\ {EncodeKey(id).idx : id \in ValidIdentifiers} = Slots
        /\ (call.pc = "constructed"
               /\ \A k \in DOMAIN call.shoe_dict :
                     call.shoe_dict[k].card_str \in ValidIdentifiers)
              => /\ \A r \in Ranks, u \in Suits :
                       shoe_counts[u * NumRanks + r]
                          = CountOf(call.shoe_dict, Identifier(r, u))
                 /\ \A j \in Slots :
                       shoe_counts[j]
                          = CountOf(call.shoe_dict,
                                    Identifier(j % NumRanks, j \div NumRanks))

\* a simulator was constructed from two 10 of spades and one 2 of hearts:
\* slot 9 holds 2, slot 14 holds 1 and the other slots 0
C28_Witness ==
    /\ Encoding /\ call.pc = "constructed"
    /\ call.shoe_dict = << [card_str |-> <<"1", "0", "S">>, count |-> 2],
                           [card_str |-> <<"2", "H">>, count |-> 1] >>
    /\ shoe_counts[9] = 2 /\ shoe_counts[14] = 1
    /\ Sum(shoe_counts) = 3

\* ------------------------------------------------------------------------
\* Worked examples of the evaluators (SpecHand, SpecBets)
\* ------------------------------------------------------------------------
\* the hand of the call holds three Aces and an 8, in any order
ThreeAcesAndEight ==
    /\ call.fn = "get_hand_total" /\ Len(call.hand) = 4
    /\ Cardinality({k \in 1 .. 4 : call.hand[k] = 0}) = 3
    /\ \E k \in 1 .. 4 : call.hand[k] = 7

\* C29: the hand evaluator returns total 11 for the hand Ace+Ace+Ace+8.
C29_ThreeAcesEightIsEleven == ThreeAcesAndEight => call.total = 11

\* C29 as the code has it: the hand Ace+Ace+Ace+8 has total 21, with one
\* Ace counted as 11 and the hand reported soft.
C29_ThreeAcesEightIsTwentyOne ==
    ThreeAcesAndEight =>
        /\ call.total = 21
        /\ call.is_soft
        /\ call.total = HardSum(call.hand) + 10

\* the evaluator was called on Ace, Ace, Ace, 8 and returned 21
C29_Witness ==
    /\ call.fn = "get_hand_total"
    /\ call.hand = <<0, 0, 0, 7>>
    /\ call.total = 21 /\ call.is_soft

\* the index of the card of rank r in suit u
CardOf(r, u) == u * NumRanks + r

\* the two player cards are the 8 of spades and the 8 of suit u, in
\* either order
EightOfSpadesWith(u) ==
    {call.cards[1], call.cards[2]} = {CardOf(7, 0), CardOf(7, u)}

SameCardTwice == call.cards[1] = call.cards[2]

\* C30: Perfect Pairs pays +25 for two cards of the same rank and suit,
\* +12 for the pair 8 of spades with 8 of hearts, and +6 for the pair 8 of
\* spades with 8 of clubs (spades = suit 0, hearts = suit 1, clubs = suit 3).
C30_PairExamples ==
    BetsDone =>
        /\ SameCardTwice => call.pairs = Pay(25)
        /\ EightOfSpadesWith(1) => call.pairs = Pay(12)
        /\ EightOfSpadesWith(3) => call.pairs = Pay(6)

\* C30 as the code has it: +25 for two cards of the same rank and suit,
\* +6 for the 8 of spades with the 8 of hearts (one black, one red) and
\* +12 for the 8 of spades with the 8 of clubs (both black).
C30_PairExamplesByColour ==
    BetsDone =>
        /\ SameCardTwice => call.pairs = Pay(25)
        /\ EightOfSpadesWith(1) => call.pairs = Pay(6)
        /\ EightOfSpadesWith(2) => call.pairs = Pay(6)
        /\ EightOfSpadesWith(3) => call.pairs = Pay(12)

\* the player was dealt the 8 of clubs and the 8 of spades, and the
\* Perfect Pairs field is +12
C30_Witness ==
    /\ BetsDone
    /\ call.cards[1] = 46 /\ call.cards[2] = 7
    /\ call.pairs = Pay(12)

\* ------------------------------------------------------------------------
\* Termination of a round (SpecRound)
\* ------------------------------------------------------------------------
\* the statements of the round still ahead of frame s when no further draw
\* succeeds: the deal, the hole card, the split, the hands, the dealer
StepsLeft(s) ==
    CASE s.pc = "deal_p1" -> 12
      [] s.pc = "deal_p2" -> 11
      [] s.pc = "deal_d1" -> 10
      [] s.pc = "hole"    -> 9
      [] s.pc = "split1"  -> 8
      [] s.pc = "split2"  -> 7
      [] s.pc = "play"    -> 2 + 2 * (Len(s.hands) - s.cur) + (IF s.entry THEN 1 ELSE 0)
      [] s.pc = "dealer"  -> 1
      [] OTHER            -> 0

\* a bound on the steps the round of frame s can still take
Variant(s) == 13 * Sum(s.temp_shoe) + StepsLeft(s)

\* worker w is inside a round
Playing(w) == w \in DOMAIN wk /\ ~BetweenRounds(wk[w])

\* a step of worker w inside a round brings the round nearer to its end;
\* one that stays in the loop of a hand, or in the dealer's loop, has
\* drawn a card
RoundAdvances(w) ==
    (Playing(w) /\ wk'[w] # wk[w]) =>
        /\ Variant(wk'[w]) < Variant(wk[w])
        /\ Sum(wk'[w].temp_shoe) \in {Sum(wk[w].temp_shoe), Sum(wk[w].temp_shoe) - 1}
        /\ (wk[w].pc = "play" /\ wk'[w].pc = "play" /\ wk'[w].cur = wk[w].cur)
              => Sum(wk'[w].temp_shoe) = Sum(wk[w].temp_shoe) - 1
        /\ (wk[w].pc = "dealer" /\ wk'[w].pc = "dealer")
              => Sum(wk'[w].temp_shoe) = Sum(wk[w].temp_shoe) - 1

DrawsWithinVector ==
    \A w \in DOMAIN wk :
        InRound(wk[w]) => /\ CardsDealt(wk[w]) <= Sum(wk[w].shoe_counts)
                          /\ DrawnInRound(wk[w]) = CardsDealt(wk[w])
                          /\ NonNegative(wk[w].temp_shoe)

\* a draw that returned EMPTY has ended the loop it was made in: the hand
\* of the player has returned, the round of the dealer is resolved
EmptyEndsLoop ==
    \A w \in DOMAIN wk :
        /\ wk[w].act = "hit_empty"
              => /\ wk[w].finals # <<>> /\ Sum(wk[w].temp_shoe) = 0
                 /\ \/ wk[w].pc = "dealer"
                    \/ wk[w].pc = "play" /\ wk[w].entry
                                         /\ wk[w].cur = Len(wk[w].finals) + 1
        /\ wk[w].act = "dealer_empty"
              => BetweenRounds(wk[w]) /\ Sum(wk[w].temp_shoe) = 0

\* C31: every simulated round terminates for every count vector, including
\* vectors that run out mid-round: the player loop and the dealer loop each
\* end after finitely many draws, and the number of draws that succeed in a
\* round is at most the vector's sum at the start of the round. Stated so
\* that a finite run refutes it: every step of a round lowers Variant, a
\* step that stays in a loop has drawn a card, and a draw that finds the
\* vector empty ends its loop.
C31_RoundsTerminate ==
    /\ [](DrawsWithinVector /\ EmptyEndsLoop)
    /\ [][\A w \in DOMAIN wk : RoundAdvances(w)]_vars

\* the player hit until the vector ran out, the dealer found it empty, and
\* the round ended
C31_Witness ==
    \E w \in DOMAIN wk :
        /\ wk[w].act = "dealer_empty" /\ BetweenRounds(wk[w])
        /\ \E h \in 1 .. Len(wk[w].hands) : Len(wk[w].hands[h]) >= 3
        /\ Sum(wk[w].temp_shoe) = 0
        /\ CardsDealt(wk[w]) = Sum(wk[w].shoe_counts)

\* ------------------------------------------------------------------------
\* The bust bet of a natural round (SpecRound)
\* ------------------------------------------------------------------------
\* the round of frame s is over and dealt two cards to the player and two
\* to the dealer
FourCardsDealt(s) ==
    /\ BetweenRounds(s) /\ s.i >= 1 /\ InRound(s)
    /\ EMPTY \notin DealIndices(s)
    /\ Len(s.dealer_hand) >= 2

\* C32: in every round in which all four initial cards were dealt, the
\* bust side bet is scored as won or lost and never left at 0: in
\* particular a round ended by a player or dealer natural, where the dealer
\* holds two cards and has not busted, records -1 in the bust field.
C32_BustAlwaysScored ==
    \A w \in DOMAIN wk :
        FourCardsDealt(wk[w]) =>
            /\ RoundRow(wk[w])[2] # 0
            /\ NaturalRound(wk[w]) => RoundRow(wk[w])[2] = Pay(-1)

\* what the code does in a round ended by a natural: the main field is
\* written, the bust field is left as np.zeros made it
NaturalLeavesBustZero ==
    \A w \in DOMAIN wk :
        (FourCardsDealt(wk[w]) /\ NaturalRound(wk[w])) => RoundRow(wk[w])[2] = 0

\* ------------------------------------------------------------------------
\* The two hand evaluators (SpecValues)
\* ------------------------------------------------------------------------
Valued == call.fn = "hand_values"

\* C33: for every hand, the advisor's Hand._calculate_value and the
\* engine's get_hand_total return the same (total, soft) pair once card
\* codes are mapped to rank indices: the two hand evaluators of the
\* repository never disagree on a hand's total or on whether it is soft.
C33_EvaluatorsAgree ==
    Valued => /\ call.advisor.value = call.engine.total
              /\ call.advisor.is_soft = call.engine.is_soft

\* what the two evaluators do agree on: the total of every hand, and the
\* soft flag of every hand in which no Ace was reduced to 1
EvaluatorsAgreeOnTotal ==
    Valued => /\ call.advisor.value = call.engine.total
              /\ call.advisor.is_soft => call.engine.is_soft
              /\ (call.engine.is_soft /\ ~call.advisor.is_soft)
                    => call.engine.total = HardSum(RankIndices(call.cards))

\* ------------------------------------------------------------------------
\* Properties of the window (SpecGui)
\* ------------------------------------------------------------------------
\* Undo Last has run directly after a card click that entered a card
UndoneClick ==
    /\ call.fn = "gui"
    /\ call.handler = "_undo_last_card"
    /\ call.before # <<>>

\* C34: a card click followed by Undo Last leaves the shoe counts and
\* total_cards, the four running counts, the player, dealer and burned lists
\* with their order, the action history and round_card_count as they were
\* before the click
C34_ClickUndoRestores == UndoneClick => Entered(call) = call.before

\* a click followed by Undo Last has restored the shoe, the running counts,
\* the history and round_card_count, and the lists up to their order
ClickUndoRestoresContents ==
    UndoneClick =>
        /\ call.shoe = call.before.shoe
        /\ call.counters = call.before.counters
        /\ call.action_history = call.before.action_history
        /\ call.round_card_count = call.before.round_card_count
        /\ \A mode \in Modes :
             /\ Len(call.selected_cards[mode]) = Len(call.before.selected_cards[mode])
             /\ \A card \in GuiCards :
                  Cardinality({k \in DOMAIN call.selected_cards[mode] :
                                  call.selected_cards[mode][k] = card})
                  = Cardinality({k \in DOMAIN call.before.selected_cards[mode] :
                                    call.before.selected_cards[mode][k] = card})

\* the ace of spades, the king of spades and the ace of spades again were
\* entered for the player and the last click was undone
AceKingAceUndone ==
    /\ UndoneClick
    /\ call.before.selected_cards.player = << <<"A", "S">>, <<"K", "S">> >>

\* the simulation numbered n has ended: the window has handled its results
\* or its error
SimulationEnded(n) ==
    /\ call.fn = "gui"
    /\ call.sims = n
    /\ call.handler \in {"_on_simulation_finished", "_on_simulation_error"}

\* C35: after a simulation has ended, by results or by an error, a later
\* press of Run Simulation starts a new simulation
C35_RunAgain ==
    \A n \in 1 .. MaxSims - 1 : SimulationEnded(n) ~> (call.sims = n + 1)

\* a press of Run Simulation after the results of a simulation: the thread
\* of that simulation stops running
ThreadStopsAfterResults ==
    \A n \in 1 .. MaxSims - 1 :
        (call.fn = "gui" /\ call.sims = n /\ call.handler = "_on_simulation_finished")
        ~> (call.simulation_thread # "running" \/ call.sims > n)

\* ------------------------------------------------------------------------
\* Properties of the Shoe (SpecShoe)
\* ------------------------------------------------------------------------
RECURSIVE SumOver(_, _)
\* the sum of the counts of the cards of keys
SumOver(cards, keys) ==
    IF keys = {} THEN 0
    ELSE LET key == CHOOSE k \in keys : TRUE
         IN  cards[key] + SumOver(cards, keys \ {key})

\* C36: after any calls of reset_shoe, remove_card, restore_card and
\* draw_random_card, raising or not, total_cards is the sum of the per-card
\* counts, every count lies between 0 and decks, and the keys are the 52
\* card codes
C36_ShoeConsistent ==
    call.fn = "shoe" =>
        /\ call.shoe.total_cards = SumOver(call.shoe.cards, DOMAIN call.shoe.cards)
        /\ \A code \in DOMAIN call.shoe.cards :
             0 <= call.shoe.cards[code] /\ call.shoe.cards[code] <= call.shoe.decks
        /\ DOMAIN call.shoe.cards = ValidIdentifiers
        /\ Cardinality(DOMAIN call.shoe.cards) = 52

\* a card was drawn from a full shoe and the restoring of another card raised
C36_Witness ==
    /\ call.fn = "shoe"
    /\ call.calls = 2
    /\ call.op = "restore_card"
    /\ call.raised = "ValueError"
    /\ call.shoe.total_cards = call.shoe.initial_card_count - 1
    /\ call.shoe.cards[call.arg] = call.shoe.decks

\* the counts and total_cards are as they were before the call
CountsKept ==
    /\ call'.shoe.cards = call.shoe.cards
    /\ call'.shoe.total_cards = call.shoe.total_cards

\* the call made in this step, of the method op
ShoeCalled(op) == call.fn = "shoe" /\ call'.fn = "shoe" /\ call'.op = op

\* C37: remove_card raises ValueError for a card of count 0 and for an
\* unknown code, restore_card raises ValueError for a card of count decks
\* and KeyError for an unknown code, draw_random_card raises ValueError on
\* an empty shoe, and each of these calls keeps the counts and total_cards
C37_RaisesAndKeeps ==
    [][ /\ ( /\ ShoeCalled("remove_card")
             /\ \/ call'.arg \notin DOMAIN call.shoe.cards
                \/ call.shoe.cards[call'.arg] = 0 )
           => (call'.raised = "ValueError" /\ CountsKept)
        /\ ( /\ ShoeCalled("restore_card")
             /\ call'.arg \in DOMAIN call.shoe.cards
             /\ call.shoe.cards[call'.arg] = call.shoe.decks )
           => (call'.raised = "ValueError" /\ CountsKept)
        /\ ( /\ ShoeCalled("restore_card")
             /\ call'.arg \notin DOMAIN call.shoe.cards )
           => (call'.raised = "KeyError" /\ CountsKept)
        /\ ( /\ ShoeCalled("draw_random_card")
             /\ call.shoe.total_cards = 0 )
           => (call'.raised = "ValueError" /\ CountsKept)
      ]_vars

\* the last card of a shoe was removed and a draw from the empty shoe raised
C37_Witness ==
    /\ call.fn = "shoe"
    /\ call.calls = 2
    /\ call.op = "draw_random_card"
    /\ call.raised = "ValueError"
    /\ call.shoe.total_cards = 0
    /\ call.shoe.initial_card_count > 0

====
